---- MODULE Spec2Model ----
(***************************************************************************)
(* Network layer of the blockchain node (package network): the mempool     *)
(* manager, the peer/node manager and the parts of the server they use.    *)
(*                                                                         *)
(* Time is a logical clock `now` (time.Now()); durations are counted in    *)
(* ticks of that clock.  Byte slices are sequences of numbers 0..255; the  *)
(* map keys of the mempool are the "%x" rendering of the transaction ID,   *)
(* modelled as the sequence of its hexadecimal digits (0..15).             *)
(*                                                                         *)
(* A Go panic unwinds through the deferred mu.Unlock() and leaves every    *)
(* assignment made before it in place; the operation's result is then      *)
(* "panic" and the caller may go on using the manager (a recovered panic). *)
(* A process that does not recover simply takes no further step.           *)
(***************************************************************************)
EXTENDS Integers, Sequences, FiniteSets, TLC

(* ---- bounds of the model ---- *)
maxSize == 2        \* MempoolManager.maxSize, scaled down
timeout == 1        \* MempoolManager.timeout, in clock ticks
maxPeers == 1       \* NodeManager.maxPeers, scaled down
MaxTime == 2        \* the clock stops at MaxTime
MaxBody == 1        \* longest frame body, in bytes
MaxChains == 2      \* longest list of competing chains
staleThreshold == 1 \* maintainPeers: 5 minutes, in clock ticks
ByteSize == 2       \* the values of a byte, scaled down from 256

(* ---- program constants ---- *)
FeePerByte == 10    \* calculateFees: 10 satoshis per byte
LogPrefixLen == 8   \* txID[:8] in the log lines

VARIABLES
    transactions,   \* MempoolManager.transactions: set of entries, one per key
    KnownNodes,     \* Server.KnownNodes
    inflight,       \* sends spawned by BroadcastMessage that have not returned
    peers,          \* NodeManager.peers: set of Peer records
    dialing,        \* address whose ConnectToPeer holds nm.mu in its dial, or NoAddr
    now,            \* time.Now()
    nm,             \* NodeManager.maxPeers, .bootstrapNodes and .running
    task,           \* the Bootstrap or discoverPeers call in progress, and its history
    blocksInTransit, \* the package variable blocksInTransit
    handlers,       \* per connection: the position of its HandleConnection goroutine
    server,         \* Server.running, Server.listener, the position of Server.Start,
                    \* the accepted connections
    routines,       \* live background goroutines of the node manager, per loop
    crashed,        \* the process has ended on a panic or a fatal runtime error
    threads,        \* per goroutine: the call it is in, its position, the locks it holds
    last            \* the last operation: its name, argument, result, what it sent

vars == <<transactions, KnownNodes, inflight, peers, dialing, now, nm, task,
          blocksInTransit, handlers, server, routines, crashed, threads, last>>

MkLast(op, arg, res, sent) == [op |-> op, arg |-> arg, res |-> res, sent |-> sent]

(***************************************************************************)
(* Transactions (TransactionInterface): an ID and a serialization.         *)
(***************************************************************************)
EmptyID == <<>>
ShortID == <<7>>
LongID(k) == <<171, 205, 0, k>>
LongIDs == {LongID(1), LongID(2), LongID(3)}
TxIDs == {EmptyID, ShortID} \cup LongIDs

Txs == {[id |-> EmptyID, ser |-> <<1>>],
        [id |-> ShortID, ser |-> <<1>>],
        [id |-> LongID(1), ser |-> <<1, 2>>],
        [id |-> LongID(1), ser |-> <<>>],
        [id |-> LongID(2), ser |-> <<1, 2, 3>>],
        [id |-> LongID(3), ser |-> <<1>>]}

\* fmt.Sprintf("%x", b): two hexadecimal digits per byte
RECURSIVE Hex(_)
Hex(b) ==
    IF b = <<>> THEN <<>>
    ELSE <<Head(b) \div 16, Head(b) % 16>> \o Hex(Tail(b))

(***************************************************************************)
(* The map mm.transactions as a set of entries carrying their key.         *)
(***************************************************************************)
Keys(txs) == {e.key : e \in txs}

ExistsNever(txs, key) == FALSE

\* _, exists := mm.transactions[key]
Exists(txs, key) == \E e \in txs : e.key = key

Lookup(txs, key) == CHOOSE e \in txs : e.key = key

\* delete(mm.transactions, key)
MapDelete(txs, key) == {e \in txs : e.key # key}

\* mm.transactions[e.key] = e
MapPut(txs, e) == MapDelete(txs, e.key) \cup {e}

\* the orders in which a range over a map with key set S may visit it
RECURSIVE Orders(_)
Orders(S) ==
    IF S = {} THEN {<<>>}
    ELSE UNION {{<<k>> \o o : o \in Orders(S \ {k})} : k \in S}

calculateFees(tx) == Len(tx.ser) * FeePerByte

NewEntry(tx, t) ==
    [key |-> Hex(tx.id), tx |-> tx, Timestamp |-> t,
     Fees |-> calculateFees(tx), Size |-> Len(tx.ser), Verified |-> TRUE]

\* the loop of evictOldestTransaction over the keys in `order`
RECURSIVE OldestScan(_, _, _, _)
OldestScan(txs, order, oldestTxID, oldestTime) ==
    IF order = <<>> THEN oldestTxID
    ELSE LET e == Lookup(txs, Head(order))
         IN IF oldestTxID = <<>> \/ e.Timestamp < oldestTime
            THEN OldestScan(txs, Tail(order), e.key, e.Timestamp)
            ELSE OldestScan(txs, Tail(order), oldestTxID, oldestTime)

\* evictOldestTransaction: the table after it, and whether its log line panicked
evictOldestTransaction(txs, order) ==
    LET oldestTxID == OldestScan(txs, order, <<>>, 0)
    IN IF oldestTxID # <<>>
       THEN [txs |-> MapDelete(txs, oldestTxID),
             panic |-> Len(oldestTxID) < LogPrefixLen]
       ELSE [txs |-> txs, panic |-> FALSE]

\* the visiting orders that matter to AddTransaction: it ranges over the
\* map only when it evicts, and then one order for each table that
\* evictOldestTransaction can leave
EvictOrders(txs) ==
    IF Cardinality(txs) >= maxSize
    THEN LET all == Orders(Keys(txs))
             outs == {evictOldestTransaction(txs, o) : o \in all}
         IN {CHOOSE o \in all : evictOldestTransaction(txs, o) = out : out \in outs}
    ELSE {<<>>}

InvTx(id) == [cmd |-> "inv", type |-> "tx", items |-> <<id>>]

\* BroadcastMessage: one send task per node known when it is called
BroadcastTasks(nodes, msg) == {[to |-> n, msg |-> msg] : n \in nodes}

\* AddTransaction on table txs at time t: the table, the result and the
\* broadcast it leaves behind
AddTransactionOutcome(txs, tx, t, order, nodes) ==
    LET txID == Hex(tx.id)
    IN IF Exists(txs, txID)
       THEN [txs |-> txs, res |-> "error", tasks |-> {}]
       ELSE LET ev == IF Cardinality(txs) >= maxSize
                      THEN evictOldestTransaction(txs, order)
                      ELSE [txs |-> txs, panic |-> FALSE]
            IN IF ev.panic
               THEN [txs |-> ev.txs, res |-> "panic", tasks |-> {}]
               ELSE LET added == MapPut(ev.txs, NewEntry(tx, t))
                    IN IF Len(txID) < LogPrefixLen
                       THEN [txs |-> added, res |-> "panic", tasks |-> {}]
                       ELSE [txs |-> added, res |-> "ok",
                             tasks |-> BroadcastTasks(nodes, InvTx(tx.id))]

AddTransaction(tx, order) ==
    LET out == AddTransactionOutcome(transactions, tx, now, order, KnownNodes)
    IN /\ transactions' = out.txs
       /\ UNCHANGED threads
       /\ inflight' = inflight \cup out.tasks
       /\ last' = MkLast("AddTransaction", tx, out.res, <<>>)
       /\ UNCHANGED <<server, routines, crashed, KnownNodes, peers, dialing, now, nm, task, blocksInTransit, handlers>>

RemoveTransaction(txID) ==
    /\ UNCHANGED threads
    /\ transactions' = MapDelete(transactions, Hex(txID))
    /\ last' = MkLast("RemoveTransaction", txID,
                      IF Len(Hex(txID)) < LogPrefixLen THEN "panic" ELSE "ok", <<>>)
    /\ UNCHANGED <<server, routines, crashed, KnownNodes, inflight, peers, dialing, now, nm, task, blocksInTransit, handlers>>

\* a loop that stops at the first ID that is not in the table
RECURSIVE RemoveConfirmedUntilMissing(_, _)
RemoveConfirmedUntilMissing(txs, confirmedTxs) ==
    IF confirmedTxs = <<>> THEN txs
    ELSE LET txIDStr == Hex(Head(confirmedTxs))
         IN IF Exists(txs, txIDStr)
            THEN RemoveConfirmedUntilMissing(MapDelete(txs, txIDStr), Tail(confirmedTxs))
            ELSE txs

\* the loop of RemoveConfirmedTransactions over confirmedTxs
RECURSIVE RemoveConfirmedLoop(_, _)
RemoveConfirmedLoop(txs, confirmedTxs) ==
    IF confirmedTxs = <<>> THEN txs
    ELSE LET txIDStr == Hex(Head(confirmedTxs))
         IN RemoveConfirmedLoop(
                IF Exists(txs, txIDStr) THEN MapDelete(txs, txIDStr) ELSE txs,
                Tail(confirmedTxs))

ConfirmedLists ==
    {<<>>} \cup {<<a>> : a \in TxIDs}
           \cup {<<a, b>> : a \in {EmptyID, LongID(1), LongID(2)}, b \in {LongID(1), LongID(2), LongID(3)}}

RemoveConfirmedTransactions(confirmedTxs) ==
    /\ UNCHANGED threads
    /\ transactions' = RemoveConfirmedLoop(transactions, confirmedTxs)
    /\ last' = MkLast("RemoveConfirmedTransactions", confirmedTxs,
                      IF transactions' # transactions THEN "removed" ELSE "ok", <<>>)
    /\ UNCHANGED <<server, routines, crashed, KnownNodes, inflight, peers, dialing, now, nm, task, blocksInTransit, handlers>>

IsExpiredAtTimeout(e, t) == t - e.Timestamp >= timeout

\* now.Sub(mempoolTx.Timestamp) > mm.timeout
IsExpired(e, t) == t - e.Timestamp > timeout

CleanExpiredTransactions ==
    /\ UNCHANGED threads
    /\ transactions' = {e \in transactions : ~IsExpired(e, now)}
    /\ last' = MkLast("CleanExpiredTransactions", <<>>,
                      IF transactions' # transactions THEN "cleaned" ELSE "ok", <<>>)
    /\ UNCHANGED <<server, routines, crashed, KnownNodes, inflight, peers, dialing, now, nm, task, blocksInTransit, handlers>>

Clear ==
    /\ UNCHANGED threads
    /\ transactions' = {}
    /\ last' = MkLast("Clear", <<>>, "ok", <<>>)
    /\ UNCHANGED <<server, routines, crashed, KnownNodes, inflight, peers, dialing, now, nm, task, blocksInTransit, handlers>>

\* ValidateTransaction: the error it returns, or "ok"
ValidateTransaction(tx) ==
    IF Len(tx.id) = 0 THEN "invalid transaction ID"
    ELSE IF Len(tx.ser) = 0 THEN "transaction serialization failed"
    ELSE "ok"

\* the goroutine of BroadcastMessage after SendMessage: delete on an error
AfterSendKeep(nodes, addr, ok) == nodes

AfterSend(nodes, addr, ok) == IF ok THEN nodes ELSE nodes \ {addr}

\* one send task of BroadcastMessage returns; a failed send drops the node
BroadcastSendDone(send, ok) ==
    /\ UNCHANGED threads
    /\ send \in inflight
    /\ send.msg.cmd = "inv"
    /\ inflight' = inflight \ {send}
    /\ KnownNodes' = AfterSend(KnownNodes, send.to, ok)
    /\ last' = MkLast("BroadcastSendDone", send.to, IF ok THEN "ok" ELSE "error", <<>>)
    /\ UNCHANGED <<server, routines, crashed, transactions, peers, dialing, now, nm, task, blocksInTransit, handlers>>

\* time passes
Tick ==
    /\ UNCHANGED threads
    /\ now < MaxTime
    /\ now' = now + 1
    /\ last' = MkLast("Tick", <<>>, "ok", <<>>)
    /\ UNCHANGED <<server, routines, crashed, transactions, KnownNodes, inflight, peers, dialing, nm, task, blocksInTransit, handlers>>

(***************************************************************************)
(* Peer / node manager.  nm.peers is a set of Peer records carrying their  *)
(* address (the fields ID and Latency are never assigned and are left      *)
(* out).  ConnectToPeer keeps nm.mu from its first line to its return,     *)
(* across the dial: it is two steps, and while `dialing` names an address  *)
(* no other operation that takes nm.mu can run.                            *)
(***************************************************************************)
NoAddr == "none"
ServerAddress == "self"
RemoteAddrs == {"n1", "n2"}
Addrs == RemoteAddrs \cup {ServerAddress}
Heights == {0, 2}         \* heights a version message may advertise
Versions == {1}

\* Blockchain.GetBestHeight(): the ledger is not appended to by this layer
bestHeight == 1

PeerExists(ps, address) == \E p \in ps : p.Address = address

PeerAt(ps, address) == CHOOSE p \in ps : p.Address = address

PeerDelete(ps, address) == {p \in ps : p.Address # address}

\* nm.peers[p.Address] = p
PeerPut(ps, p) == PeerDelete(ps, p.Address) \cup {p}

NewPeer(address, t, status, connected, height, version) ==
    [Address |-> address, LastSeen |-> t, Height |-> height,
     Status |-> status, Connected |-> connected, Version |-> version]

getConnectedPeerCount(ps) ==
    Cardinality({p \in ps : p.Connected /\ p.Status = "Connected"})

VersionMsg(to) == [to |-> to, cmd |-> "version"]
GetBlocksMsg(to) == [to |-> to, cmd |-> "getblocks"]

PingMsg(to) == [to |-> to, msg |-> [cmd |-> "ping"]]

(***************************************************************************)
(* Bootstrap and discoverPeers call ConnectToPeer once per seed and give   *)
(* nm.mu back between the calls.  `task` is the one such call in progress: *)
(* the slice it ranges over (nodes), what is left of it (rest), its        *)
(* connectedCount, whether it is inside a ConnectToPeer dial (waiting),    *)
(* and three history fields: the ConnectToPeer calls made so far with      *)
(* their results (calls), whether the peer table was empty when it started *)
(* (fresh), and whether no other operation on the peer table ran since     *)
(* then (alone).  The fields keep their last value after the call returns  *)
(* (kind "none").                                                          *)
(***************************************************************************)
BootstrapTarget == 2     \* Bootstrap: break when connectedCount >= 2
DiscoverMinimum == 2     \* discoverPeers: len(connectedPeers) < 2

SeedLists == {<<>>, <<"n1", "n2">>, <<"self", "n2", "n1", "n2">>}

DefaultBootstrapNodes == <<"n1", "n2">>

IdleTask ==
    [kind |-> "none", nodes |-> <<>>, rest |-> <<>>, connectedCount |-> 0,
     waiting |-> FALSE, calls |-> <<>>, fresh |-> FALSE, alone |-> TRUE]

StartedTask(kind, nodes, ps) ==
    [IdleTask EXCEPT !.kind = kind, !.nodes = nodes, !.rest = nodes, !.fresh = (ps = {})]

\* another operation on the peer table ran while the task was in progress
Disturbed(tk) == IF tk.kind = "none" THEN tk ELSE [tk EXCEPT !.alone = FALSE]

AfterConnectNoBreak(tk, node, res) ==
    [tk EXCEPT !.waiting = FALSE,
               !.connectedCount = @ + (IF res = "ok" THEN 1 ELSE 0),
               !.calls = Append(@, [addr |-> node, res |-> res]),
               !.rest = Tail(@)]

\* the loop body after ConnectToPeer(node) returned res: count, break or go on
AfterConnect(tk, node, res) ==
    LET count == tk.connectedCount + (IF res = "ok" THEN 1 ELSE 0)
        break == /\ res = "ok"
                 /\ (tk.kind = "Bootstrap" => count >= BootstrapTarget)
    IN [tk EXCEPT !.waiting = FALSE,
                  !.connectedCount = count,
                  !.calls = Append(@, [addr |-> node, res |-> res]),
                  !.rest = IF break THEN <<>> ELSE Tail(@)]

ConnectCheckNoAlready(ps, address) ==
    IF address = ServerAddress THEN "self"
    ELSE IF getConnectedPeerCount(ps) >= nm.maxPeers THEN "capacity"
    ELSE "dial"

ConnectCheckNoLimit(ps, address) ==
    IF address = ServerAddress THEN "self"
    ELSE IF PeerExists(ps, address) /\ PeerAt(ps, address).Connected THEN "already"
    ELSE "dial"

ConnectCheckNoSelf(ps, address) ==
    IF PeerExists(ps, address) /\ PeerAt(ps, address).Connected THEN "already"
    ELSE IF getConnectedPeerCount(ps) >= nm.maxPeers THEN "capacity"
    ELSE "dial"

\* ConnectToPeer up to the dial: the error it returns, or "dial"
ConnectCheck(ps, address) ==
    IF address = ServerAddress THEN "self"
    ELSE IF PeerExists(ps, address) /\ PeerAt(ps, address).Connected THEN "already"
    ELSE IF getConnectedPeerCount(ps) >= nm.maxPeers THEN "capacity"
    ELSE "dial"

ConnectToPeerBegin(address) ==
    /\ UNCHANGED threads
    /\ dialing = NoAddr
    /\ LET c == ConnectCheck(peers, address)
       IN IF c = "dial"
          THEN /\ peers' = PeerPut(peers, NewPeer(address, now, "Connecting", FALSE, 0, 0))
               /\ dialing' = address
               /\ last' = MkLast("ConnectToPeer", address, "dialing", <<>>)
          ELSE /\ UNCHANGED <<server, routines, crashed, peers, dialing>>
               /\ last' = MkLast("ConnectToPeer", address, c, <<>>)
    /\ task' = Disturbed(task)
    /\ UNCHANGED <<server, routines, crashed, transactions, KnownNodes, inflight, now, nm, blocksInTransit, handlers>>

\* Server.ConnectToPeer returned: the version handshake was written, or not
ConnectToPeerEnd(ok) ==
    /\ UNCHANGED threads
    /\ dialing # NoAddr
    /\ LET p == PeerAt(peers, dialing)
       IN IF ok
          THEN /\ peers' = PeerPut(peers, [p EXCEPT !.Connected = TRUE,
                                                    !.Status = "Connected",
                                                    !.LastSeen = now])
               /\ last' = MkLast("ConnectToPeer", dialing, "ok", <<VersionMsg(dialing)>>)
          ELSE /\ peers' = PeerPut(peers, [p EXCEPT !.Status = "Disconnected"])
               /\ last' = MkLast("ConnectToPeer", dialing, "failed", <<>>)
    /\ dialing' = NoAddr
    /\ task' = IF task.waiting
               THEN AfterConnect(task, dialing, IF ok THEN "ok" ELSE "failed")
               ELSE Disturbed(task)
    /\ UNCHANGED <<server, routines, crashed, transactions, KnownNodes, inflight, now, nm, blocksInTransit, handlers>>

\* a disconnect that drops the entry
DisconnectedPeersRemoved(ps, address) == {p \in ps : p.Address # address}

\* a disconnect that leaves the Connected flag as it is
DisconnectedPeersStatusOnly(ps, address) ==
    {IF p.Address = address THEN [p EXCEPT !.Status = "Disconnected"] ELSE p : p \in ps}

DisconnectedPeers(ps, address) ==
    IF PeerExists(ps, address)
    THEN PeerPut(ps, [PeerAt(ps, address) EXCEPT !.Connected = FALSE,
                                                 !.Status = "Disconnected"])
    ELSE ps

DisconnectFromPeer(address) ==
    /\ UNCHANGED threads
    /\ dialing = NoAddr
    /\ peers' = DisconnectedPeers(peers, address)
    /\ last' = MkLast("DisconnectFromPeer", address, "ok", <<>>)
    /\ task' = Disturbed(task)
    /\ UNCHANGED <<server, routines, crashed, transactions, KnownNodes, inflight, dialing, now, nm, blocksInTransit, handlers>>

AddPeerAlways(ps, address, t) ==
    ps \cup {NewPeer(address, t, "Disconnected", FALSE, 0, 0)}

\* the peer table after AddPeer(address) at time t
AddedPeers(ps, address, t) ==
    IF address = ServerAddress THEN ps
    ELSE IF ~PeerExists(ps, address)
         THEN PeerPut(ps, NewPeer(address, t, "Disconnected", FALSE, 0, 0))
         ELSE ps

AddPeer(address) ==
    /\ UNCHANGED threads
    /\ dialing = NoAddr
    /\ peers' = AddedPeers(peers, address, now)
    /\ last' = MkLast("AddPeer", address,
                      IF address = ServerAddress THEN "self"
                      ELSE IF PeerExists(peers, address) THEN "known"
                      ELSE "added", <<>>)
    /\ task' = Disturbed(task)
    /\ UNCHANGED <<server, routines, crashed, transactions, KnownNodes, inflight, dialing, now, nm, blocksInTransit, handlers>>

RemovePeer(address) ==
    /\ UNCHANGED threads
    /\ dialing = NoAddr
    /\ peers' = PeerDelete(peers, address)
    /\ last' = MkLast("RemovePeer", address, "ok", <<>>)
    /\ task' = Disturbed(task)
    /\ UNCHANGED <<server, routines, crashed, transactions, KnownNodes, inflight, dialing, now, nm, blocksInTransit, handlers>>

\* the peer table after UpdatePeerInfo(address, height, version) at time t
UpdatedPeers(ps, address, height, version, t) ==
    IF PeerExists(ps, address)
    THEN PeerPut(ps, [PeerAt(ps, address) EXCEPT !.Height = height,
                                                 !.Version = version,
                                                 !.LastSeen = t,
                                                 !.Connected = TRUE,
                                                 !.Status = "Connected"])
    ELSE PeerPut(ps, NewPeer(address, t, "Connected", TRUE, height, version))

UpdatePeerInfo(address, height, version) ==
    /\ UNCHANGED threads
    /\ dialing = NoAddr
    /\ peers' = UpdatedPeers(peers, address, height, version, now)
    /\ last' = MkLast("UpdatePeerInfo", address, "ok", <<>>)
    /\ task' = Disturbed(task)
    /\ UNCHANGED <<server, routines, crashed, transactions, KnownNodes, inflight, dialing, now, nm, blocksInTransit, handlers>>

BanPeer(address) ==
    /\ UNCHANGED threads
    /\ dialing = NoAddr
    /\ peers' = IF PeerExists(peers, address)
                THEN PeerPut(peers, [PeerAt(peers, address) EXCEPT !.Status = "Banned",
                                                                   !.Connected = FALSE])
                ELSE peers
    /\ last' = MkLast("BanPeer", address, "ok", <<>>)
    /\ task' = Disturbed(task)
    /\ UNCHANGED <<server, routines, crashed, transactions, KnownNodes, inflight, dialing, now, nm, blocksInTransit, handlers>>

VersionData(addrFrom, foreignerBestHeight, version) ==
    [AddrFrom |-> addrFrom, BestHeight |-> foreignerBestHeight, Version |-> version]

VersionResponseNeverSilent(addrFrom, foreignerBestHeight) ==
    IF bestHeight < foreignerBestHeight THEN <<GetBlocksMsg(addrFrom)>>
    ELSE <<VersionMsg(addrFrom)>>

\* what HandleVersion sends: SendGetBlocks, SendVersion, or nothing
VersionResponse(addrFrom, foreignerBestHeight) ==
    IF bestHeight < foreignerBestHeight THEN <<GetBlocksMsg(addrFrom)>>
    ELSE IF bestHeight > foreignerBestHeight THEN <<VersionMsg(addrFrom)>>
    ELSE <<>>

\* HandleVersion: the request or reply it sends, the known-node set and
\* the peer table after it.  Its last call, UpdatePeerInfo, takes nm.mu, so
\* the handler completes only while no ConnectToPeer is in its dial.
HandleVersion(addrFrom, foreignerBestHeight, version) ==
    /\ UNCHANGED threads
    /\ dialing = NoAddr
    /\ last' = MkLast("HandleVersion", VersionData(addrFrom, foreignerBestHeight, version),
                      "ok", VersionResponse(addrFrom, foreignerBestHeight))
    /\ KnownNodes' = KnownNodes \cup {addrFrom}
    /\ peers' = UpdatedPeers(peers, addrFrom, foreignerBestHeight, version, now)
    /\ task' = Disturbed(task)
    /\ UNCHANGED <<server, routines, crashed, transactions, inflight, dialing, now, nm, blocksInTransit, handlers>>

SetBootstrapNodes(nodes) ==
    /\ UNCHANGED threads
    /\ dialing = NoAddr
    /\ nm' = [nm EXCEPT !.bootstrapNodes = nodes]
    /\ last' = MkLast("SetBootstrapNodes", nodes, "ok", <<>>)
    /\ UNCHANGED <<server, routines, crashed, transactions, KnownNodes, inflight, peers, dialing, now, task,
                   blocksInTransit, handlers>>

\* Bootstrap up to its loop: the empty-list error, or the range over the list
Bootstrap ==
    /\ UNCHANGED threads
    /\ task.kind = "none"
    /\ IF Len(nm.bootstrapNodes) = 0
       THEN /\ task' = task
            /\ last' = MkLast("Bootstrap", <<>>, "error", <<>>)
       ELSE /\ task' = StartedTask("Bootstrap", nm.bootstrapNodes, peers)
            /\ last' = MkLast("Bootstrap", nm.bootstrapNodes, "started", <<>>)
    /\ UNCHANGED <<server, routines, crashed, transactions, KnownNodes, inflight, peers, dialing, now, nm,
                   blocksInTransit, handlers>>

\* one turn of `for _, node := range nm.bootstrapNodes`: skip the local
\* address, or call ConnectToPeer(node) up to its error return or its dial
LoopStep ==
    /\ UNCHANGED threads
    /\ ~task.waiting
    /\ task.rest # <<>>
    /\ LET node == Head(task.rest)
       IN IF node = ServerAddress
          THEN /\ task' = [task EXCEPT !.rest = Tail(@)]
               /\ last' = MkLast(task.kind, node, "skip", <<>>)
               /\ UNCHANGED <<server, routines, crashed, peers, dialing>>
          ELSE /\ dialing = NoAddr
               /\ LET c == ConnectCheck(peers, node)
                  IN IF c = "dial"
                     THEN /\ peers' = PeerPut(peers, NewPeer(node, now, "Connecting", FALSE, 0, 0))
                          /\ dialing' = node
                          /\ task' = [task EXCEPT !.waiting = TRUE]
                          /\ last' = MkLast("ConnectToPeer", node, "dialing", <<>>)
                     ELSE /\ UNCHANGED <<server, routines, crashed, peers, dialing>>
                          /\ task' = AfterConnect(task, node, c)
                          /\ last' = MkLast("ConnectToPeer", node, c, <<>>)
    /\ UNCHANGED <<server, routines, crashed, transactions, KnownNodes, inflight, now, nm, blocksInTransit, handlers>>

BootstrapLoop == task.kind = "Bootstrap" /\ LoopStep

\* Bootstrap after its loop: the error when nothing connected, or nil
BootstrapReturn ==
    /\ UNCHANGED threads
    /\ task.kind = "Bootstrap"
    /\ ~task.waiting
    /\ task.rest = <<>>
    /\ task' = [task EXCEPT !.kind = "none"]
    /\ last' = MkLast("Bootstrap", task.nodes,
                      IF task.connectedCount = 0 THEN "error" ELSE "ok", <<>>)
    /\ UNCHANGED <<server, routines, crashed, transactions, KnownNodes, inflight, peers, dialing, now, nm,
                   blocksInTransit, handlers>>

\* discoverPeers up to its loop; GetConnectedPeers takes nm.mu for reading
discoverPeersFrom(rs) ==
    /\ UNCHANGED threads
    /\ routines' = rs
    /\ task.kind = "none"
    /\ dialing = NoAddr
    /\ LET connectedPeers == getConnectedPeerCount(peers)
       IN IF /\ connectedPeers < nm.maxPeers \div 2
             /\ connectedPeers < DiscoverMinimum
             /\ Len(nm.bootstrapNodes) > 0
          THEN /\ task' = StartedTask("discoverPeers", nm.bootstrapNodes, peers)
               /\ last' = MkLast("discoverPeers", nm.bootstrapNodes, "started", <<>>)
          ELSE /\ task' = task
               /\ last' = MkLast("discoverPeers", <<>>, "ok", <<>>)
    /\ UNCHANGED <<server, crashed, transactions, KnownNodes, inflight, peers, dialing, now, nm,
                   blocksInTransit, handlers>>

\* discoverPeers called outside a loop
discoverPeers == discoverPeersFrom(routines)

discoverPeersLoop == task.kind = "discoverPeers" /\ LoopStep

discoverPeersReturn ==
    /\ UNCHANGED threads
    /\ task.kind = "discoverPeers"
    /\ ~task.waiting
    /\ task.rest = <<>>
    /\ task' = [task EXCEPT !.kind = "none"]
    /\ last' = MkLast("discoverPeers", task.nodes, "ok", <<>>)
    /\ UNCHANGED <<server, routines, crashed, transactions, KnownNodes, inflight, peers, dialing, now, nm,
                   blocksInTransit, handlers>>

\* performHealthCheck: one pingPeer goroutine per peer connected now
performHealthCheckFrom(rs) ==
    /\ UNCHANGED threads
    /\ routines' = rs
    /\ dialing = NoAddr
    /\ inflight' = inflight \cup
           {PingMsg(p.Address) : p \in {q \in peers : q.Connected /\ q.Status = "Connected"}}
    /\ last' = MkLast("performHealthCheck", <<>>, "ok", <<>>)
    /\ UNCHANGED <<server, crashed, transactions, KnownNodes, peers, dialing, now, nm, task,
                   blocksInTransit, handlers>>

\* performHealthCheck called outside a loop
performHealthCheck == performHealthCheckFrom(routines)

\* pingPeer: the ping is sent; when the send fails, DisconnectFromPeer
pingPeer(address, ok) ==
    /\ UNCHANGED threads
    /\ PingMsg(address) \in inflight
    /\ inflight' = inflight \ {PingMsg(address)}
    /\ IF ok
       THEN UNCHANGED <<peers, task>>
       ELSE /\ dialing = NoAddr
            /\ peers' = DisconnectedPeers(peers, address)
            /\ task' = Disturbed(task)
    /\ last' = MkLast("pingPeer", address, IF ok THEN "ok" ELSE "error", <<PingMsg(address)>>)
    /\ UNCHANGED <<server, routines, crashed, transactions, KnownNodes, dialing, now, nm, blocksInTransit, handlers>>

(***************************************************************************)
(* Message handlers.  Every accepted connection has its own goroutine      *)
(* (go s.HandleConnection), so handlers of two connections interleave.     *)
(* blocksInTransit is a package variable that HandleInv reads and writes   *)
(* without a lock: its accesses are separate steps.  A connection is named *)
(* by the address of its peer, which is also the AddrFrom of its messages. *)
(***************************************************************************)
AdvertisedHeights == 0..(bestHeight + 1)

BlockHashes == {<<1>>, <<2>>, <<3>>}

\* Blockchain.GetBlock finds these hashes
Ledger == {<<1>>, <<2>>}

\* item lists of inv messages; Items[0] of an empty list panics in the
\* goroutine of the connection, which ends the process
InvLists == {<<<<1>>>>, <<<<1>>, <<2>>>>, <<<<2>>, <<3>>>>, <<<<3>>, <<1>>, <<2>>>>, <<<<1>>, <<2>>, <<1>>>>}

\* Server.Mempool: made empty by NewServer and assigned nowhere
Mempool == {}

InvData(addrFrom, type, items) == [AddrFrom |-> addrFrom, Type |-> type, Items |-> items]

GetDataData(addrFrom, type, id) == [AddrFrom |-> addrFrom, Type |-> type, ID |-> id]

GetDataMsg(to, type, id) == [to |-> to, cmd |-> "getdata", type |-> type, id |-> id]

BlockMsg(to, hash) == [to |-> to, cmd |-> "block", block |-> hash]

TxMsg(to, tx) == [to |-> to, cmd |-> "tx", tx |-> tx]

IdleHandler == [pc |-> "idle", Items |-> <<>>, newInTransit |-> <<>>, nodes |-> {}]

\* for _, b := range list { if !BytesEqual(b, blockHash) { append } }
RECURSIVE WithoutHash(_, _)
WithoutHash(list, blockHash) ==
    IF list = <<>> THEN <<>>
    ELSE IF Head(list) # blockHash
         THEN <<Head(list)>> \o WithoutHash(Tail(list), blockHash)
         ELSE WithoutHash(Tail(list), blockHash)

\* HandleInv, Type "block", lines 59-62: store the list, request Items[0]
HandleInvBlock(c, items) ==
    /\ UNCHANGED threads
    /\ handlers[c].pc = "idle"
    /\ items # <<>>
    /\ blocksInTransit' = items
    /\ handlers' = [handlers EXCEPT ![c] = [pc |-> "filter", Items |-> items,
                                            newInTransit |-> <<>>, nodes |-> {}]]
    /\ last' = MkLast("HandleInv", InvData(c, "block", items), "requested",
                      <<GetDataMsg(c, "block", items[1])>>)
    /\ UNCHANGED <<server, routines, crashed, transactions, KnownNodes, inflight, peers, dialing, now, nm, task>>

\* lines 64-69: read blocksInTransit and build newInTransit
HandleInvFilter(c) ==
    /\ UNCHANGED threads
    /\ handlers[c].pc = "filter"
    /\ handlers' = [handlers EXCEPT ![c] =
           [pc |-> "store", Items |-> handlers[c].Items,
            newInTransit |-> WithoutHash(blocksInTransit, handlers[c].Items[1]),
            nodes |-> {}]]
    /\ last' = MkLast("HandleInv", InvData(c, "block", handlers[c].Items), "filtered", <<>>)
    /\ UNCHANGED <<server, routines, crashed, transactions, KnownNodes, inflight, peers, dialing, now, nm, task,
                   blocksInTransit>>

\* line 70: blocksInTransit = newInTransit, and the handler returns
HandleInvStore(c) ==
    /\ UNCHANGED threads
    /\ handlers[c].pc = "store"
    /\ blocksInTransit' = handlers[c].newInTransit
    /\ handlers' = [handlers EXCEPT ![c] = IdleHandler]
    /\ last' = MkLast("HandleInv", InvData(c, "block", handlers[c].Items), "done", <<>>)
    /\ UNCHANGED <<server, routines, crashed, transactions, KnownNodes, inflight, peers, dialing, now, nm, task>>

\* s.TransactionExists(txID): a lookup in Server.Mempool
TransactionExists(txID) == \E e \in Mempool : e.key = Hex(txID)

\* HandleInv, Type "tx": request Items[0] unless TransactionExists
HandleInvTx(c, items) ==
    /\ UNCHANGED threads
    /\ items # <<>>
    /\ last' = MkLast("HandleInv", InvData(c, "tx", items), "ok",
                      IF ~TransactionExists(items[1])
                      THEN <<GetDataMsg(c, "tx", items[1])>> ELSE <<>>)
    /\ UNCHANGED <<server, routines, crashed, transactions, KnownNodes, inflight, peers, dialing, now, nm, task,
                   blocksInTransit, handlers>>

\* a ledger that returns a block for every hash
GetBlockAlways(hash) == <<hash>>

\* s.Blockchain.GetBlock(hash): the block, or an error for a hash that is
\* not in the ledger
GetBlock(hash) == IF hash \in Ledger THEN <<hash>> ELSE <<>>

\* HandleGetData: SendBlock for a block of the ledger, SendTx for a
\* transaction found in Server.Mempool
HandleGetData(c, type, id) ==
    /\ UNCHANGED threads
    /\ last' = MkLast("HandleGetData", GetDataData(c, type, id), "ok",
                      IF type = "block"
                      THEN IF GetBlock(id) # <<>> THEN <<BlockMsg(c, GetBlock(id)[1])>> ELSE <<>>
                      ELSE IF \E e \in Mempool : e.key = Hex(id)
                           THEN <<TxMsg(c, (CHOOSE e \in Mempool : e.key = Hex(id)).tx)>>
                           ELSE <<>>)
    /\ UNCHANGED <<server, routines, crashed, transactions, KnownNodes, inflight, peers, dialing, now, nm, task,
                   blocksInTransit, handlers>>

(***************************************************************************)
(* The server.  Server.Start listens, sets s.listener and s.running, starts *)
(* the managers and accepts connections while s.running; every accepted    *)
(* connection gets a HandleConnection goroutine.  s.running and s.listener *)
(* are written and read without a lock, so every statement of Start and    *)
(* Stop that touches them is a step of its own.  `socket` is the state of  *)
(* the listening socket, `listener` whether s.listener points to it;       *)
(* `stopped` remembers whether Stop was called, and has returned, since    *)
(* the Start now running was called.                                       *)
(***************************************************************************)
NewServer == [running |-> FALSE, listener |-> "nil", socket |-> "none",
              start |-> "none", stop |-> "none", stopped |-> "no", conns |-> {},
              Blockchain |-> Ledger]

\* s.Blockchain after HandleBlock has decoded a block: the steps that would
\* add it are comments, AddBlock is not called
ReceivedBlock(chain, block) == chain

\* a handler that admits the received transaction
ReceivedTxAdded(txs, tx, t) == txs \cup {NewEntry(tx, t)}

\* the Mempool Manager's table after HandleTx has decoded a transaction:
\* the handler prints and returns
ReceivedTx(txs, tx, t) == txs

Loops == {"startPeerDiscovery", "startPeerMaintenance", "startHealthCheck"}

\* nm.Start(): the flag under nm.mu, then the three goroutines.  A
\* goroutine of a loop is waiting on its ticker ("ticker"), has read
\* nm.running and is about to run its round ("checked"), or has returned
\* ("none"); goroutines of the same loop are not told apart.
NodeManagerStarted(n) == [n EXCEPT !.running = TRUE]

Spawned(rs) == [l \in Loops |-> IF rs[l] = "none" THEN "ticker" ELSE rs[l]]

NodeManagerStopped(n) == [n EXCEPT !.running = FALSE]

\* NodeManager.Start called on its own
NodeManagerStart ==
    /\ UNCHANGED threads
    /\ ~crashed
    /\ dialing = NoAddr
    /\ nm' = NodeManagerStarted(nm)
    /\ routines' = Spawned(routines)
    /\ last' = MkLast("NodeManager.Start", <<>>, "ok", <<>>)
    /\ UNCHANGED <<server, crashed, transactions, KnownNodes, inflight, peers,
                   dialing, now, task, blocksInTransit, handlers>>

\* NodeManager.Stop called on its own
NodeManagerStop ==
    /\ UNCHANGED threads
    /\ ~crashed
    /\ dialing = NoAddr
    /\ nm' = NodeManagerStopped(nm)
    /\ last' = MkLast("NodeManager.Stop", <<>>, "ok", <<>>)
    /\ UNCHANGED <<server, routines, crashed, transactions, KnownNodes, inflight, peers,
                   dialing, now, task, blocksInTransit, handlers>>

\* case <-ticker.C: if !nm.running { return }.  The read of nm.running
\* takes no lock, and the round is a later statement.
LoopTick(l) ==
    /\ UNCHANGED threads
    /\ ~crashed
    /\ routines[l] = "ticker"
    /\ l = "startPeerDiscovery" => task.kind # "discoverPeers"
    /\ routines' = [routines EXCEPT ![l] = IF nm.running THEN "checked" ELSE "none"]
    /\ last' = MkLast(l, <<>>, IF nm.running THEN "tick" ELSE "returned", <<>>)
    /\ UNCHANGED <<server, crashed, transactions, KnownNodes, inflight, peers, dialing, now,
                   nm, task, blocksInTransit, handlers>>

\* startPeerDiscovery: nm.discoverPeers()
startPeerDiscovery ==
    /\ ~crashed
    /\ routines["startPeerDiscovery"] = "checked"
    /\ discoverPeersFrom([routines EXCEPT !["startPeerDiscovery"] = "ticker"])

\* maintainPeers: peers not seen for staleThreshold are deleted, banned
\* ones excepted
\* the addresses maintainPeers collects: last seen longer ago than the
\* threshold, and not banned
stalePeers(ps, t) ==
    {p.Address : p \in {q \in ps : t - q.LastSeen > staleThreshold /\ q.Status # "Banned"}}

\* a pass that collects banned peers as well
maintainPeersBanned(ps, t) ==
    {p \in ps : ~(t - p.LastSeen > staleThreshold)}

maintainPeers(ps, t) ==
    {p \in ps : ~(t - p.LastSeen > staleThreshold /\ p.Status # "Banned")}

\* startPeerMaintenance: nm.maintainPeers()
startPeerMaintenance ==
    /\ UNCHANGED threads
    /\ ~crashed
    /\ routines["startPeerMaintenance"] = "checked"
    /\ dialing = NoAddr
    /\ peers' = maintainPeers(peers, now)
    /\ task' = Disturbed(task)
    /\ routines' = [routines EXCEPT !["startPeerMaintenance"] = "ticker"]
    /\ last' = MkLast("maintainPeers", stalePeers(peers, now), "ok", <<>>)
    /\ UNCHANGED <<server, crashed, transactions, KnownNodes, inflight, dialing, now, nm,
                   blocksInTransit, handlers>>

\* startHealthCheck: nm.performHealthCheck()
startHealthCheck ==
    /\ ~crashed
    /\ routines["startHealthCheck"] = "checked"
    /\ performHealthCheckFrom([routines EXCEPT !["startHealthCheck"] = "ticker"])

\* Server.Start, line 911: net.Listen fails while the address is in use
ServerStartListen ==
    /\ UNCHANGED threads
    /\ ~crashed
    /\ server.start = "none"
    /\ IF server.socket = "open"
       THEN /\ server' = server
            /\ last' = MkLast("Start", <<>>, "error", <<>>)
       ELSE /\ server' = [server EXCEPT !.socket = "open", !.start = "listened",
                                        !.stopped = "no"]
            /\ last' = MkLast("Start", <<>>, "listening", <<>>)
    /\ UNCHANGED <<routines, crashed, transactions, KnownNodes, inflight, peers, dialing, now,
                   nm, task, blocksInTransit, handlers>>

\* line 916: s.listener = listener
ServerStartSetListener ==
    /\ UNCHANGED threads
    /\ ~crashed
    /\ server.start = "listened"
    /\ server' = [server EXCEPT !.listener = "set", !.start = "set"]
    /\ last' = MkLast("Start", <<>>, "listener", <<>>)
    /\ UNCHANGED <<routines, crashed, transactions, KnownNodes, inflight, peers, dialing, now,
                   nm, task, blocksInTransit, handlers>>

\* line 917: s.running = true
ServerStartSetRunning ==
    /\ UNCHANGED threads
    /\ ~crashed
    /\ server.start = "set"
    /\ server' = [server EXCEPT !.running = TRUE, !.start = "managers"]
    /\ last' = MkLast("Start", <<>>, "running", <<>>)
    /\ UNCHANGED <<routines, crashed, transactions, KnownNodes, inflight, peers, dialing, now,
                   nm, task, blocksInTransit, handlers>>

\* line 920: s.NodeManager.Start()
ServerStartManagers ==
    /\ UNCHANGED threads
    /\ ~crashed
    /\ server.start = "managers"
    /\ dialing = NoAddr
    /\ nm' = NodeManagerStarted(nm)
    /\ routines' = Spawned(routines)
    /\ server' = [server EXCEPT !.start = "loop"]
    /\ last' = MkLast("Start", <<>>, "managers", <<>>)
    /\ UNCHANGED <<crashed, transactions, KnownNodes, inflight, peers, dialing, now,
                   task, blocksInTransit, handlers>>

\* line 926: for s.running; return nil when it is false
ServerStartLoop ==
    /\ UNCHANGED threads
    /\ ~crashed
    /\ server.start = "loop"
    /\ server' = [server EXCEPT !.start = IF server.running THEN "accept" ELSE "none"]
    /\ last' = MkLast("Start", <<>>, IF server.running THEN "accept" ELSE "returned", <<>>)
    /\ UNCHANGED <<routines, crashed, transactions, KnownNodes, inflight, peers, dialing, now,
                   nm, task, blocksInTransit, handlers>>

\* lines 927-932: Accept on the closed listener returns an error; continue
AcceptError ==
    /\ UNCHANGED threads
    /\ ~crashed
    /\ server.start = "accept"
    /\ server.socket = "closed"
    /\ server' = [server EXCEPT !.start = "loop"]
    /\ last' = MkLast("Accept", <<>>, "error", <<>>)
    /\ UNCHANGED <<routines, crashed, transactions, KnownNodes, inflight, peers, dialing, now,
                   nm, task, blocksInTransit, handlers>>

\* Server.Stop, line 943: s.running = false
ServerStopFlag ==
    /\ UNCHANGED threads
    /\ ~crashed
    /\ server.stop = "none"
    /\ server' = [server EXCEPT !.running = FALSE, !.stop = "managers",
                                !.stopped = IF server.start # "none" THEN "called" ELSE @]
    /\ last' = MkLast("Stop", <<>>, "flag", <<>>)
    /\ UNCHANGED <<routines, crashed, transactions, KnownNodes, inflight, peers, dialing, now,
                   nm, task, blocksInTransit, handlers>>

\* lines 946-948: s.NodeManager.Stop()
ServerStopManagers ==
    /\ UNCHANGED threads
    /\ ~crashed
    /\ server.stop = "managers"
    /\ dialing = NoAddr
    /\ nm' = NodeManagerStopped(nm)
    /\ server' = [server EXCEPT !.stop = "close"]
    /\ last' = MkLast("Stop", <<>>, "managers", <<>>)
    /\ UNCHANGED <<routines, crashed, transactions, KnownNodes, inflight, peers, dialing, now,
                   task, blocksInTransit, handlers>>

\* lines 950-953: s.listener.Close() unless s.listener is nil
ServerStopClose ==
    /\ UNCHANGED threads
    /\ ~crashed
    /\ server.stop = "close"
    /\ server' = [server EXCEPT !.stop = "none",
                                !.stopped = IF @ = "called" THEN "returned" ELSE @,
                                !.socket = IF server.listener = "set" /\ @ = "open"
                                           THEN "closed" ELSE @]
    /\ last' = MkLast("Stop", <<>>, "returned", <<>>)
    /\ UNCHANGED <<routines, crashed, transactions, KnownNodes, inflight, peers, dialing, now,
                   nm, task, blocksInTransit, handlers>>

\* a connection whose goroutine sits in ReadMessage
Reading(c) == ~crashed /\ c \in server.conns /\ handlers[c].pc = "idle"

\* listener.Accept() returns a connection; go s.HandleConnection(conn)
Accept(r) ==
    /\ UNCHANGED threads
    /\ ~crashed
    /\ server.start = "accept"
    /\ server.socket = "open"
    /\ r \notin server.conns
    /\ server' = [server EXCEPT !.conns = @ \cup {r}, !.start = "loop"]
    /\ handlers' = [handlers EXCEPT ![r] = [IdleHandler EXCEPT !.pc = "new"]]
    /\ last' = MkLast("Accept", r, "ok", <<>>)
    /\ UNCHANGED <<routines, crashed, transactions, KnownNodes, inflight, peers, dialing, now,
                   nm, task, blocksInTransit>>

\* HandleConnection, lines 963-965: s.KnownNodes[remoteAddr] = true
HandleConnectionRegister(c) ==
    /\ UNCHANGED threads
    /\ ~crashed
    /\ c \in server.conns
    /\ handlers[c].pc = "new"
    /\ KnownNodes' = KnownNodes \cup {c}
    /\ handlers' = [handlers EXCEPT ![c].pc = "addpeer"]
    /\ last' = MkLast("HandleConnection", c, "registered", <<>>)
    /\ UNCHANGED <<server, routines, crashed, transactions, inflight, peers, dialing, now, nm,
                   task, blocksInTransit>>

\* lines 967-969: s.NodeManager.AddPeer(remoteAddr), then the read loop
HandleConnectionAddPeer(c) ==
    /\ UNCHANGED threads
    /\ ~crashed
    /\ c \in server.conns
    /\ handlers[c].pc = "addpeer"
    /\ dialing = NoAddr
    /\ peers' = AddedPeers(peers, c, now)
    /\ task' = Disturbed(task)
    /\ handlers' = [handlers EXCEPT ![c].pc = "idle"]
    /\ last' = MkLast("HandleConnection", c, "open", <<>>)
    /\ UNCHANGED <<server, routines, crashed, transactions, KnownNodes, inflight, dialing, now,
                   nm, blocksInTransit>>

\* what a peer can put on the wire: whether the four length bytes arrive,
\* the length they declare, the bytes that follow before the stream ends,
\* and whether those bytes are the gob encoding of a Message
Frames == {f \in [header : BOOLEAN, declared : 0..MaxBody, present : 0..MaxBody,
                  gob : {"message", "garbage"}] :
              /\ f.present <= f.declared
              /\ ~f.header => (f.declared = 0 /\ f.gob = "garbage")}

\* DeserializeMessage: log.Panic when the bytes do not decode
DeserializeMessage(f) ==
    IF f.declared = 0 \/ f.gob = "garbage" THEN "panic" ELSE "message"

\* ReadMessage: an error when either io.ReadFull falls short
ReadMessage(f) ==
    IF ~f.header THEN "error"
    ELSE IF f.present < f.declared THEN "error"
    ELSE DeserializeMessage(f)

\* the read loop on a frame that is not a message: a read error breaks the
\* loop, a decoding panic is recovered nowhere and ends the process
ReadFrame(c, f) ==
    /\ UNCHANGED threads
    /\ Reading(c)
    /\ ReadMessage(f) # "message"
    /\ IF ReadMessage(f) = "error"
       THEN /\ handlers' = [handlers EXCEPT ![c].pc = "closing"]
            /\ crashed' = crashed
       ELSE /\ handlers' = handlers
            /\ crashed' = TRUE
    /\ last' = MkLast("ReadMessage", f, ReadMessage(f), <<>>)
    /\ UNCHANGED <<server, routines, transactions, KnownNodes, inflight, peers, dialing, now,
                   nm, task, blocksInTransit>>

Commands == {"version", "getblocks", "inv", "getdata", "block", "tx", "ping"}

\* a handler on a message whose Data is not the gob encoding of the
\* handler's payload type: GobDecode calls log.Panic
HandleBadPayload(c, cmd) ==
    /\ UNCHANGED threads
    /\ Reading(c)
    /\ crashed' = TRUE
    /\ last' = MkLast("ProcessMessage", [cmd |-> cmd, data |-> "garbage"], "panic", <<>>)
    /\ UNCHANGED <<server, routines, transactions, KnownNodes, inflight, peers, dialing, now,
                   nm, task, blocksInTransit, handlers>>

\* Command strings that no case of ProcessMessage's switch names: CmdPong,
\* and a string that is none of the eight constants
OtherCommands == {"pong", "unknown"}

\* a default case that answers a pong with a ping
ProcessMessagePing(c, cmd) == IF cmd = "pong" THEN <<PingMsg(c)>> ELSE <<>>

\* What the default case of ProcessMessage's switch writes to the network
ProcessMessageDefault(c, cmd) == <<>>

\* ProcessMessage, default case: the message is printed and dropped; its
\* Data is never decoded
UnknownCommand(c, cmd) ==
    /\ UNCHANGED threads
    /\ Reading(c)
    /\ cmd \notin Commands
    /\ last' = MkLast("ProcessMessage", [conn |-> c, cmd |-> cmd, data |-> <<>>], "ok",
                      ProcessMessageDefault(c, cmd))
    /\ UNCHANGED <<server, routines, crashed, transactions, KnownNodes, inflight, peers,
                   dialing, now, nm, task, blocksInTransit, handlers>>

\* HandleInv on an inventory with no items: Items[0] is out of range,
\* after blocksInTransit was assigned for Type "block"
HandleInvEmpty(c, type) ==
    /\ UNCHANGED threads
    /\ Reading(c)
    /\ blocksInTransit' = IF type = "block" THEN <<>> ELSE blocksInTransit
    /\ crashed' = TRUE
    /\ last' = MkLast("HandleInv", InvData(c, type, <<>>), "panic", <<>>)
    /\ UNCHANGED <<server, routines, transactions, KnownNodes, inflight, peers, dialing, now,
                   nm, task, handlers>>

\* HandleBlock, lines 129-131: a block in transit is requested; else the
\* range over s.KnownNodes starts, with no lock
HandleBlockBegin(c) ==
    /\ UNCHANGED threads
    /\ Reading(c)
    /\ \E block \in BlockHashes :
          server' = [server EXCEPT !.Blockchain = ReceivedBlock(@, block)]
    /\ IF Len(blocksInTransit) > 0
       THEN /\ handlers' = [handlers EXCEPT ![c].pc = "pop"]
            /\ last' = MkLast("HandleBlock", c, "requested",
                              <<GetDataMsg(c, "block", blocksInTransit[1])>>)
       ELSE /\ handlers' = [handlers EXCEPT ![c].pc = "range", ![c].nodes = KnownNodes]
            /\ last' = MkLast("HandleBlock", c, "range", <<>>)
    /\ UNCHANGED <<routines, crashed, transactions, KnownNodes, inflight, peers,
                   dialing, now, nm, task, blocksInTransit>>

TxData(addrFrom, tx) == [AddrFrom |-> addrFrom, Transaction |-> tx]

\* HandleTx: the payload is decoded and two lines are printed
HandleTx(c, tx) ==
    /\ UNCHANGED threads
    /\ Reading(c)
    /\ transactions' = ReceivedTx(transactions, tx, now)
    /\ last' = MkLast("HandleTx", TxData(c, tx), "ok", <<>>)
    /\ UNCHANGED <<server, routines, crashed, KnownNodes, inflight, peers, dialing, now,
                   nm, task, blocksInTransit, handlers>>

\* line 133: blocksInTransit = blocksInTransit[1:], a slice expression that
\* panics when another handler has emptied the list meanwhile
HandleBlockPop(c) ==
    /\ UNCHANGED threads
    /\ ~crashed
    /\ handlers[c].pc = "pop"
    /\ IF blocksInTransit = <<>>
       THEN /\ crashed' = TRUE
            /\ blocksInTransit' = blocksInTransit
            /\ last' = MkLast("HandleBlock", c, "panic", <<>>)
       ELSE /\ crashed' = crashed
            /\ blocksInTransit' = Tail(blocksInTransit)
            /\ last' = MkLast("HandleBlock", c, "ok", <<>>)
    /\ handlers' = [handlers EXCEPT ![c] = IdleHandler]
    /\ UNCHANGED <<server, routines, transactions, KnownNodes, inflight, peers, dialing, now,
                   nm, task>>

\* the loop body over the nodes in the order the range yields them
RECURSIVE GetBlocksTo(_)
GetBlocksTo(order) ==
    IF order = <<>> THEN <<>>
    ELSE (IF Head(order) # ServerAddress THEN <<GetBlocksMsg(Head(order))>> ELSE <<>>)
         \o GetBlocksTo(Tail(order))

\* lines 136-140: the range ends.  When the map was written while it was
\* ranged over, the runtime may have stopped the process (concurrent map
\* iteration and map write) and the loop may have seen either map
HandleBlockRange(c, fatal) ==
    /\ UNCHANGED threads
    /\ ~crashed
    /\ handlers[c].pc = "range"
    /\ fatal => KnownNodes # handlers[c].nodes
    /\ crashed' = fatal
    /\ handlers' = [handlers EXCEPT ![c] = IdleHandler]
    /\ \E seen \in Orders(handlers[c].nodes) \cup Orders(KnownNodes) :
          last' = MkLast("HandleBlock", c, IF fatal THEN "fatal" ELSE "ok",
                         IF fatal THEN <<>> ELSE GetBlocksTo(seen))
    /\ UNCHANGED <<server, routines, transactions, KnownNodes, inflight, peers, dialing, now,
                   nm, task, blocksInTransit>>

\* BroadcastMessage: the nodes are copied under the read lock, then one
\* goroutine per node sends
BroadcastMessage(msg) ==
    /\ UNCHANGED threads
    /\ ~crashed
    /\ inflight' = inflight \cup BroadcastTasks(KnownNodes, msg)
    /\ last' = MkLast("BroadcastMessage", msg, "ok", <<>>)
    /\ UNCHANGED <<server, routines, crashed, transactions, KnownNodes, peers, dialing, now,
                   nm, task, blocksInTransit, handlers>>

\* HandleConnection, lines 984-986: delete(s.KnownNodes, remoteAddr)
HandleConnectionUnregister(c) ==
    /\ UNCHANGED threads
    /\ ~crashed
    /\ c \in server.conns
    /\ handlers[c].pc = "closing"
    /\ KnownNodes' = KnownNodes \ {c}
    /\ handlers' = [handlers EXCEPT ![c].pc = "disconnect"]
    /\ last' = MkLast("HandleConnection", c, "unregistered", <<>>)
    /\ UNCHANGED <<server, routines, crashed, transactions, inflight, peers, dialing, now, nm,
                   task, blocksInTransit>>

\* lines 988-993: s.NodeManager.DisconnectFromPeer(remoteAddr), and the
\* deferred conn.Close()
HandleConnectionDisconnect(c) ==
    /\ UNCHANGED threads
    /\ ~crashed
    /\ c \in server.conns
    /\ handlers[c].pc = "disconnect"
    /\ dialing = NoAddr
    /\ peers' = DisconnectedPeers(peers, c)
    /\ task' = Disturbed(task)
    /\ handlers' = [handlers EXCEPT ![c] = IdleHandler]
    /\ server' = [server EXCEPT !.conns = @ \ {c}]
    /\ last' = MkLast("HandleConnection", c, "closed", <<>>)
    /\ UNCHANGED <<routines, crashed, transactions, KnownNodes, inflight, dialing, now, nm,
                   blocksInTransit>>

(***************************************************************************)
(* The sync manager.  findLongestChain keeps a pointer to its range        *)
(* variable (longest = &chain).  A toolchain older than Go 1.22 has one    *)
(* such variable for the whole loop, so the pointer follows the loop and   *)
(* ends on the last element; Go 1.22 and later make one per iteration.     *)
(* The repository has no go.mod and asks for Go 1.18 or later, so both     *)
(* builds exist: perIteration says which one runs.  A pointer is 0 for     *)
(* nil, otherwise the iteration whose variable it points to.               *)
(***************************************************************************)
ChainInfo(nodeAddr, height, hash) == [NodeAddr |-> nodeAddr, Height |-> height, Hash |-> hash]

ChainHeights == {0 - 1, 0, bestHeight, bestHeight + 1}

ChainHashes == {<<>>, <<1>>}

CompetingChains ==
    {ChainInfo(a, h, x) : a \in RemoteAddrs, h \in ChainHeights, x \in ChainHashes}

ChainLists == UNION {[1..n -> CompetingChains] : n \in 0..MaxChains}

validateChainInfo(chain) == chain.Height >= 0 /\ Len(chain.Hash) > 0

\* the loop of findLongestChain from element i on, longest being the pointer
RECURSIVE findLongestFrom(_, _, _, _)
findLongestFrom(chains, i, longest, perIteration) ==
    IF i > Len(chains) THEN longest
    ELSE LET chain == chains[i]
             pointee == IF perIteration THEN chains[longest] ELSE chain
             taken == /\ (longest = 0 \/ chain.Height > pointee.Height)
                      /\ validateChainInfo(chain)
         IN findLongestFrom(chains, i + 1, IF taken THEN i ELSE longest, perIteration)

\* what the returned pointer points to when the loop is over: <<>> for nil
findLongestChain(chains, perIteration) ==
    LET longest == findLongestFrom(chains, 1, 0, perIteration)
    IN IF longest = 0 THEN <<>>
       ELSE IF perIteration THEN <<chains[longest]>> ELSE <<chains[Len(chains)]>>

\* ResolveChainConflicts on the list held in last.arg; adoptChain sends
\* getblocks to the node of the chain
ResolveChainConflicts(perIteration) ==
    /\ UNCHANGED threads
    /\ last.op = "competingChains"
    /\ LET longestChain == findLongestChain(last.arg, perIteration)
       IN last' = MkLast("ResolveChainConflicts", last.arg, longestChain,
                         IF longestChain # <<>> /\ longestChain[1].Height > bestHeight
                         THEN <<GetBlocksMsg(longestChain[1].NodeAddr)>> ELSE <<>>)
    /\ UNCHANGED <<server, routines, crashed, transactions, KnownNodes, inflight, peers,
                   dialing, now, nm, task, blocksInTransit, handlers>>

\* IsSynced and GetSyncStatus read the package variable blocksInTransit
IsSyncedAlways == TRUE

IsSynced == Len(blocksInTransit) = 0

GetSyncStatus ==
    [IsSyncing |-> Len(blocksInTransit) > 0, Progress |-> 1,
     PeersConnected |-> Cardinality(KnownNodes),
     BlocksRemaining |-> Len(blocksInTransit),
     CurrentHeight |-> bestHeight, TargetHeight |-> bestHeight]

\* a caller asks IsSynced()
CallIsSynced ==
    /\ UNCHANGED threads
    /\ last' = MkLast("IsSynced", <<>>, IsSynced, <<>>)
    /\ UNCHANGED <<server, routines, crashed, transactions, KnownNodes, inflight, peers,
                   dialing, now, nm, task, blocksInTransit, handlers>>

\* a caller asks GetSyncStatus()
CallGetSyncStatus ==
    /\ UNCHANGED threads
    /\ last' = MkLast("GetSyncStatus", <<>>, GetSyncStatus, <<>>)
    /\ UNCHANGED <<server, routines, crashed, transactions, KnownNodes, inflight, peers,
                   dialing, now, nm, task, blocksInTransit, handlers>>

(***************************************************************************)
(* The wire format.  An envelope is the gob encoding of a Message: its     *)
(* first unit stands for the type description and the Command field, with  *)
(* the length of Data as gob writes it, and the bytes of Data follow.  A   *)
(* byte has ByteSize values, so the four length bytes count up to          *)
(* ByteSize^4 - 1, as byte(n >> 24) ... byte(n) count up to 2^32 - 1.      *)
(***************************************************************************)
PrefixLimit == ByteSize * ByteSize * ByteSize * ByteSize

\* the longest Data: an envelope one unit longer than the prefix can tell
MaxData == PrefixLimit

DataOf(k) == [i \in 1..k |-> i % ByteSize]

Message(command, data) == [Command |-> command, Data |-> data]

CodecMessages == {Message(c, DataOf(k)) : c \in Commands, k \in 0..MaxData}

\* IntToBytes: byte(n >> 24), byte(n >> 16), byte(n >> 8), byte(n)
IntToBytes(n) ==
    <<(n \div (ByteSize * ByteSize * ByteSize)) % ByteSize,
      (n \div (ByteSize * ByteSize)) % ByteSize,
      (n \div ByteSize) % ByteSize,
      n % ByteSize>>

\* BytesToInt: int(b[0])<<24 | int(b[1])<<16 | int(b[2])<<8 | int(b[3])
BytesToInt(b) ==
    b[1] * (ByteSize * ByteSize * ByteSize) + b[2] * (ByteSize * ByteSize)
        + b[3] * ByteSize + b[4]

\* SerializeMessage: gob of the Message
SerializeMessage(msg) == <<[Command |-> msg.Command, n |-> Len(msg.Data)]>> \o msg.Data

\* WriteMessage: the length bytes, then the envelope
WriteMessage(msg) ==
    LET data == SerializeMessage(msg)
    IN IntToBytes(Len(data)) \o data

\* gob decoding of msgBytes: an error unless the whole value is there
DecodeEnvelope(msgBytes) ==
    IF msgBytes = <<>> THEN [res |-> "panic"]
    ELSE IF DOMAIN Head(msgBytes) # {"Command", "n"} THEN [res |-> "panic"]
    ELSE IF Len(msgBytes) - 1 < Head(msgBytes).n THEN [res |-> "panic"]
    ELSE [res |-> "message",
          msg |-> Message(Head(msgBytes).Command,
                          SubSeq(msgBytes, 2, 1 + Head(msgBytes).n))]

\* ReadMessage on the bytes of a stream
ReadStream(stream) ==
    IF Len(stream) < 4 THEN [res |-> "error"]
    ELSE LET length == BytesToInt(SubSeq(stream, 1, 4))
         IN IF Len(stream) - 4 < length THEN [res |-> "error"]
            ELSE DecodeEnvelope(SubSeq(stream, 5, 4 + length))

\* a sender writes the message held in last.arg to a connection
SendOnWire ==
    /\ UNCHANGED threads
    /\ last.op = "message"
    /\ last' = MkLast("WriteMessage", last.arg, "ok", WriteMessage(last.arg))
    /\ UNCHANGED <<server, routines, crashed, transactions, KnownNodes, inflight, peers,
                   dialing, now, nm, task, blocksInTransit, handlers>>

\* the receiver reads the bytes written; a decoding panic ends its process
ReceiveFromWire ==
    /\ UNCHANGED threads
    /\ last.op = "WriteMessage"
    /\ last' = MkLast("ReadMessage", last.arg, ReadStream(last.sent), last.sent)
    /\ crashed' = (ReadStream(last.sent).res = "panic")
    /\ UNCHANGED <<server, routines, transactions, KnownNodes, inflight, peers,
                   dialing, now, nm, task, blocksInTransit, handlers>>

(***************************************************************************)
(* The block exchange with remote nodes that run the same handlers.  Every *)
(* Send* dials the address in AddrFrom and writes one message, so every    *)
(* message arrives on a connection of its own; `inflight` holds the        *)
(* messages written and not yet handled.  A remote node answers getblocks  *)
(* with the list of its block hashes and getdata with the block.  The      *)
(* ledgers do not change: n1 is one block ahead of the local ledger, n2 is *)
(* level with it.                                                          *)
(***************************************************************************)
Wire(to, from, cmd, body) == [to |-> to, from |-> from, cmd |-> cmd, body |-> body]

\* GetBlockHashes() of a remote node, newest block first
PeerHashes(c) ==
    LET n == IF c = "n1" THEN bestHeight + 2 ELSE bestHeight + 1
    IN [i \in 1..n |-> <<n + 1 - i>>]

\* GetBestHeight() of a remote node
PeerHeight(c) == Len(PeerHashes(c)) - 1

\* the requests of handlers.go as messages on the wire
OnWire(sent) ==
    {Wire(sent[i].to, ServerAddress, sent[i].cmd,
          IF sent[i].cmd = "getdata" THEN sent[i].id
          ELSE IF sent[i].cmd = "version" THEN bestHeight
          ELSE <<>>) : i \in DOMAIN sent}

\* SendVersion of a remote node that connects
PeerSendVersion(c) ==
    /\ UNCHANGED threads
    /\ ~crashed
    /\ c \notin KnownNodes
    /\ \A m \in inflight : m.from # c
    /\ inflight' = inflight \cup {Wire(ServerAddress, c, "version", PeerHeight(c))}
    /\ last' = MkLast("SendVersion", c, "ok", <<>>)
    /\ UNCHANGED <<server, routines, crashed, transactions, KnownNodes, peers, dialing, now,
                   nm, task, blocksInTransit, handlers>>

\* a version message arrives: HandleVersion
DeliverVersion(c) ==
    /\ UNCHANGED threads
    /\ ~crashed
    /\ dialing = NoAddr
    /\ \E m \in inflight :
          /\ m.to = ServerAddress /\ m.from = c /\ m.cmd = "version"
          /\ inflight' = (inflight \ {m}) \cup OnWire(VersionResponse(c, m.body))
          /\ peers' = UpdatedPeers(peers, c, m.body, 1, now)
          /\ last' = MkLast("HandleVersion", VersionData(c, m.body, 1), "ok",
                            VersionResponse(c, m.body))
    /\ KnownNodes' = KnownNodes \cup {c}
    /\ task' = Disturbed(task)
    /\ UNCHANGED <<server, routines, crashed, transactions, dialing, now, nm,
                   blocksInTransit, handlers>>

\* HandleGetBlocks at a remote node: SendInv with all its block hashes
PeerHandleGetBlocks(c) ==
    /\ UNCHANGED threads
    /\ ~crashed
    /\ \E m \in inflight :
          /\ m.to = c /\ m.cmd = "getblocks"
          /\ inflight' = (inflight \ {m}) \cup {Wire(ServerAddress, c, "inv", PeerHashes(c))}
    /\ last' = MkLast("HandleGetBlocks", c, "ok", <<>>)
    /\ UNCHANGED <<server, routines, crashed, transactions, KnownNodes, peers, dialing, now,
                   nm, task, blocksInTransit, handlers>>

\* an inv(block) message arrives: HandleInv, run without another handler
\* in between
DeliverInv(c) ==
    /\ UNCHANGED threads
    /\ ~crashed
    /\ \E m \in inflight :
          /\ m.to = ServerAddress /\ m.from = c /\ m.cmd = "inv"
          /\ inflight' = (inflight \ {m}) \cup OnWire(<<GetDataMsg(c, "block", m.body[1])>>)
          /\ blocksInTransit' = WithoutHash(m.body, m.body[1])
          /\ last' = MkLast("HandleInv", InvData(c, "block", m.body), "done",
                            <<GetDataMsg(c, "block", m.body[1])>>)
    /\ UNCHANGED <<server, routines, crashed, transactions, KnownNodes, peers, dialing, now,
                   nm, task, handlers>>

\* HandleGetData at a remote node: SendBlock when GetBlock finds the hash
PeerHandleGetData(c) ==
    /\ UNCHANGED threads
    /\ ~crashed
    /\ \E m \in inflight :
          /\ m.to = c /\ m.cmd = "getdata"
          /\ inflight' = (inflight \ {m}) \cup
                 (IF \E i \in DOMAIN PeerHashes(c) : PeerHashes(c)[i] = m.body
                  THEN {Wire(ServerAddress, c, "block", m.body)} ELSE {})
    /\ last' = MkLast("HandleGetData", c, "ok", <<>>)
    /\ UNCHANGED <<server, routines, crashed, transactions, KnownNodes, peers, dialing, now,
                   nm, task, blocksInTransit, handlers>>

\* a block message arrives: HandleBlock, run without another handler in
\* between; the block is not added to the ledger
DeliverBlock(c) ==
    /\ UNCHANGED threads
    /\ ~crashed
    /\ \E m \in inflight :
          /\ m.to = ServerAddress /\ m.from = c /\ m.cmd = "block"
          /\ server' = [server EXCEPT !.Blockchain = ReceivedBlock(@, m.body)]
          /\ IF Len(blocksInTransit) > 0
             THEN /\ inflight' = (inflight \ {m}) \cup
                         OnWire(<<GetDataMsg(c, "block", blocksInTransit[1])>>)
                  /\ blocksInTransit' = Tail(blocksInTransit)
                  /\ last' = MkLast("HandleBlock", c, "ok",
                                    <<GetDataMsg(c, "block", blocksInTransit[1])>>)
             ELSE \E seen \in Orders(KnownNodes) :
                  /\ inflight' = (inflight \ {m}) \cup OnWire(GetBlocksTo(seen))
                  /\ blocksInTransit' = blocksInTransit
                  /\ last' = MkLast("HandleBlock", c, "ok", GetBlocksTo(seen))
    /\ UNCHANGED <<routines, crashed, transactions, KnownNodes, peers, dialing, now,
                   nm, task, handlers>>

(***************************************************************************)
(* The three reader/writer locks: nm.mu of the NodeManager, mm.mu of the   *)
(* MempoolManager and s.mu of the Server.  A call is the sequence of its   *)
(* lock operations, with a step "io" where it dials or writes to the       *)
(* network.  A goroutine holds the locks in `held`, in the order it took   *)
(* them.  sync.RWMutex: Lock announces the writer and then waits until no  *)
(* goroutine holds the lock; RLock waits while a writer holds the lock or  *)
(* has announced itself.                                                   *)
(***************************************************************************)
Threads == {"t1", "t2", "t3"}

IdleThread == [call |-> "idle", pc |-> 1, held |-> <<>>, pending |-> FALSE]

I(op, mu) == [op |-> op, mu |-> mu]

\* GetConnectedPeerCount: RLock, getConnectedPeerCount, RUnlock
GetConnectedPeerCountLocks == <<I("RLock", "nm"), I("RUnlock", "nm")>>

\* a ConnectToPeer that counts the peers with the locking getter
ConnectToPeerLocksGetter ==
    <<I("Lock", "nm")>> \o GetConnectedPeerCountLocks \o <<I("io", "none"), I("Unlock", "nm")>>

\* NodeManager.ConnectToPeer: nm.mu from the first line to the return,
\* getConnectedPeerCount (no lock) and the dial in between
ConnectToPeerLocks == <<I("Lock", "nm"), I("io", "none"), I("Unlock", "nm")>>

\* Server.BroadcastMessage up to the go statements
BroadcastMessageLocks == <<I("RLock", "s"), I("RUnlock", "s")>>

\* MempoolManager.AddTransaction: mm.mu held, broadcastTransaction calls
\* BroadcastMessage
AddTransactionLocks ==
    <<I("Lock", "mm")>> \o BroadcastMessageLocks \o <<I("Unlock", "mm")>>

\* the goroutine of BroadcastMessage whose send fails
BroadcastSendLocks == <<I("io", "none"), I("Lock", "s"), I("Unlock", "s")>>

\* Server.HandleConnection: register, AddPeer; HandleVersion (NodeIsKnown,
\* the write of KnownNodes, UpdatePeerInfo); unregister, DisconnectFromPeer
HandleConnectionLocks ==
    <<I("Lock", "s"), I("Unlock", "s"), I("Lock", "nm"), I("Unlock", "nm"),
      I("io", "none"),
      I("RLock", "s"), I("RUnlock", "s"), I("Lock", "s"), I("Unlock", "s"),
      I("Lock", "nm"), I("Unlock", "nm"),
      I("io", "none"),
      I("Lock", "s"), I("Unlock", "s"), I("Lock", "nm"), I("Unlock", "nm")>>

\* performHealthCheck and a pingPeer whose send fails
HealthCheckLocks ==
    <<I("RLock", "nm"), I("RUnlock", "nm"), I("io", "none"),
      I("Lock", "nm"), I("Unlock", "nm")>>

\* CleanExpiredTransactions, from the cleanup routine
CleanExpiredLocks == <<I("Lock", "mm"), I("Unlock", "mm")>>

\* Server.GetNodeInfo: GetNetworkInfo, GetMempoolInfo, GetSyncStatus
GetNodeInfoLocks ==
    <<I("RLock", "nm"), I("RUnlock", "nm"), I("RLock", "mm"), I("RUnlock", "mm"),
      I("RLock", "s"), I("RUnlock", "s")>>

LockPrograms ==
    [AddTransaction |-> AddTransactionLocks,
     BroadcastSend |-> BroadcastSendLocks,
     ConnectToPeer |-> ConnectToPeerLocks,
     GetConnectedPeerCount |-> GetConnectedPeerCountLocks,
     HandleConnection |-> HandleConnectionLocks,
     HealthCheck |-> HealthCheckLocks,
     CleanExpiredTransactions |-> CleanExpiredLocks,
     GetNodeInfo |-> GetNodeInfoLocks]

Busy(t) == threads[t].call # "idle"

Returning(t) == Busy(t) /\ threads[t].pc > Len(LockPrograms[threads[t].call])

\* the lock operation goroutine t is at
Instr(t) == LockPrograms[threads[t].call][threads[t].pc]

At(t, op) == Busy(t) /\ ~Returning(t) /\ Instr(t).op = op

Holds(t, mu, mode) ==
    \E i \in DOMAIN threads[t].held :
        threads[t].held[i].mu = mu /\ threads[t].held[i].mode = mode

Announced(t, mu) == At(t, "Lock") /\ Instr(t).mu = mu /\ threads[t].pending

Released(held, mu) == SelectSeq(held, LAMBDA h : h.mu # mu)

Advance(t, held) ==
    threads' = [threads EXCEPT ![t].pc = @ + 1, ![t].held = held, ![t].pending = FALSE]

LockFrame ==
    UNCHANGED <<transactions, KnownNodes, inflight, peers, dialing, now, nm, task,
                blocksInTransit, handlers, server, routines, crashed>>

\* a goroutine enters a call
ThreadCall(t, call) ==
    /\ ~crashed
    /\ ~Busy(t)
    /\ threads' = [threads EXCEPT ![t] = [IdleThread EXCEPT !.call = call]]
    /\ last' = MkLast("call", [thread |-> t, call |-> call], "ok", <<>>)
    /\ LockFrame

\* mu.Lock(), first half: the writer announces itself
ThreadLockAnnounce(t) ==
    /\ At(t, "Lock")
    /\ ~threads[t].pending
    /\ threads' = [threads EXCEPT ![t].pending = TRUE]
    /\ last' = MkLast("Lock", [thread |-> t, mu |-> Instr(t).mu], "waiting", <<>>)
    /\ LockFrame

\* mu.Lock(), second half: no goroutine holds the lock
ThreadLock(t) ==
    /\ At(t, "Lock")
    /\ threads[t].pending
    /\ \A u \in Threads : ~Holds(u, Instr(t).mu, "W") /\ ~Holds(u, Instr(t).mu, "R")
    /\ Advance(t, Append(threads[t].held, [mu |-> Instr(t).mu, mode |-> "W"]))
    /\ last' = MkLast("Lock", [thread |-> t, mu |-> Instr(t).mu], "ok", <<>>)
    /\ LockFrame

\* mu.RLock(): no writer holds the lock or waits for it
ThreadRLock(t) ==
    /\ At(t, "RLock")
    /\ \A u \in Threads : ~Holds(u, Instr(t).mu, "W") /\ ~Announced(u, Instr(t).mu)
    /\ Advance(t, Append(threads[t].held, [mu |-> Instr(t).mu, mode |-> "R"]))
    /\ last' = MkLast("RLock", [thread |-> t, mu |-> Instr(t).mu], "ok", <<>>)
    /\ LockFrame

\* mu.Unlock() and mu.RUnlock()
ThreadUnlock(t) ==
    /\ At(t, "Unlock") \/ At(t, "RUnlock")
    /\ Advance(t, Released(threads[t].held, Instr(t).mu))
    /\ last' = MkLast(Instr(t).op, [thread |-> t, mu |-> Instr(t).mu], "ok", <<>>)
    /\ LockFrame

\* a dial, a write or a read returns
ThreadIO(t) ==
    /\ At(t, "io")
    /\ Advance(t, threads[t].held)
    /\ last' = MkLast("io", [thread |-> t, mu |-> "none"], "ok", <<>>)
    /\ LockFrame

\* the call returns
ThreadReturn(t) ==
    /\ Returning(t)
    /\ threads' = [threads EXCEPT ![t] = IdleThread]
    /\ last' = MkLast("return", [thread |-> t, call |-> threads[t].call], "ok", <<>>)
    /\ LockFrame

\* a step of a goroutine that is inside a call
ThreadStep(t) ==
    \/ ThreadLockAnnounce(t)
    \/ ThreadLock(t)
    \/ ThreadRLock(t)
    \/ ThreadUnlock(t)
    \/ ThreadIO(t)
    \/ ThreadReturn(t)

Init ==
    /\ transactions = {}
    /\ KnownNodes = {}
    /\ inflight = {}
    /\ peers = {}
    /\ dialing = NoAddr
    /\ now = 0
    /\ nm = [maxPeers |-> maxPeers, bootstrapNodes |-> DefaultBootstrapNodes,
             running |-> FALSE]
    /\ task = IdleTask
    /\ blocksInTransit = <<>>
    /\ handlers = [c \in RemoteAddrs |-> IdleHandler]
    /\ server = NewServer
    /\ routines = [l \in Loops |-> "none"]
    /\ crashed = FALSE
    /\ threads = [t \in Threads |-> IdleThread]
    /\ last = MkLast("init", <<>>, "ok", <<>>)

NextMempool ==
    \/ \E order \in EvictOrders(transactions) : \E tx \in Txs : AddTransaction(tx, order)
    \/ \E id \in TxIDs : RemoveTransaction(id)
    \/ \E ids \in ConfirmedLists : RemoveConfirmedTransactions(ids)
    \/ CleanExpiredTransactions
    \/ Clear
    \/ Tick

SpecMempool == Init /\ [][NextMempool]_vars

NextPeers ==
    \/ \E a \in Addrs : ConnectToPeerBegin(a)
    \/ \E ok \in BOOLEAN : ConnectToPeerEnd(ok)
    \/ \E a \in Addrs : DisconnectFromPeer(a)
    \/ \E a \in Addrs : AddPeer(a)
    \/ \E a \in Addrs : RemovePeer(a)
    \/ \E a \in RemoteAddrs : \E h \in Heights : \E v \in Versions : UpdatePeerInfo(a, h, v)
    \/ \E a \in Addrs : BanPeer(a)
    \/ \E a \in RemoteAddrs : \E h \in Heights : \E v \in Versions : HandleVersion(a, h, v)
    \/ Tick

SpecPeers == Init /\ [][NextPeers]_vars

\* a node manager with room for the connections Bootstrap asks for
InitTasks ==
    /\ transactions = {}
    /\ KnownNodes = {}
    /\ inflight = {}
    /\ peers = {}
    /\ dialing = NoAddr
    /\ now = 0
    /\ nm = [maxPeers |-> maxPeers + 1, bootstrapNodes |-> DefaultBootstrapNodes,
             running |-> FALSE]
    /\ task = IdleTask
    /\ blocksInTransit = <<>>
    /\ handlers = [c \in RemoteAddrs |-> IdleHandler]
    /\ server = NewServer
    /\ routines = [l \in Loops |-> "none"]
    /\ crashed = FALSE
    /\ threads = [t \in Threads |-> IdleThread]
    /\ last = MkLast("init", <<>>, "ok", <<>>)

NextTasks ==
    \/ \E nodes \in SeedLists : SetBootstrapNodes(nodes)
    \/ Bootstrap
    \/ BootstrapLoop
    \/ BootstrapReturn
    \/ discoverPeers
    \/ discoverPeersLoop
    \/ discoverPeersReturn
    \/ \E ok \in BOOLEAN : ConnectToPeerEnd(ok)
    \/ \E a \in RemoteAddrs : DisconnectFromPeer(a)
    \/ \E a \in RemoteAddrs : BanPeer(a)
    \/ performHealthCheck
    \/ \E a \in RemoteAddrs : \E ok \in BOOLEAN : pingPeer(a, ok)

SpecTasks == InitTasks /\ [][NextTasks]_vars

NextConnect ==
    \/ \E a \in Addrs : ConnectToPeerBegin(a)
    \/ \E ok \in BOOLEAN : ConnectToPeerEnd(ok)
    \/ \E a \in RemoteAddrs : DisconnectFromPeer(a)
    \/ \E a \in RemoteAddrs : BanPeer(a)
    \/ Tick

SpecConnect == InitTasks /\ [][NextConnect]_vars

NextInv ==
    \/ \E c \in RemoteAddrs : \E items \in InvLists : HandleInvBlock(c, items)
    \/ \E c \in RemoteAddrs : HandleInvFilter(c)
    \/ \E c \in RemoteAddrs : HandleInvStore(c)
    \/ CallIsSynced
    \/ CallGetSyncStatus

SpecInv == Init /\ [][NextInv]_vars

HandlerTxs == {tx \in Txs : tx.id \in {ShortID, LongID(1)} /\ tx.ser # <<>>}

HandlerIDs == {tx.id : tx \in HandlerTxs} \cup {<<1>>, <<3>>}

NextHandlers ==
    \/ \E a \in RemoteAddrs : \E h \in AdvertisedHeights : \E v \in Versions :
          HandleVersion(a, h, v)
    \/ \E c \in RemoteAddrs : \E id \in HandlerIDs : HandleInvTx(c, <<id>>)
    \/ \E c \in RemoteAddrs : \E type \in {"block", "tx"} : \E id \in HandlerIDs :
          HandleGetData(c, type, id)
    \/ \E order \in EvictOrders(transactions) : \E tx \in HandlerTxs : AddTransaction(tx, order)
    \/ \E id \in HandlerIDs : RemoveTransaction(id)
    \/ \E send \in inflight : \E ok \in BOOLEAN : BroadcastSendDone(send, ok)

SpecHandlers == Init /\ [][NextHandlers]_vars

\* Server.Start has reached its accept loop
InitServer ==
    /\ transactions = {}
    /\ KnownNodes = {}
    /\ inflight = {}
    /\ peers = {}
    /\ dialing = NoAddr
    /\ now = 0
    /\ nm = [maxPeers |-> maxPeers + 1, bootstrapNodes |-> DefaultBootstrapNodes,
             running |-> TRUE]
    /\ task = IdleTask
    /\ blocksInTransit = <<>>
    /\ handlers = [c \in RemoteAddrs |-> IdleHandler]
    /\ server = [NewServer EXCEPT !.running = TRUE, !.listener = "set",
                                  !.socket = "open", !.start = "accept"]
    /\ routines = [l \in Loops |-> "ticker"]
    /\ crashed = FALSE
    /\ threads = [t \in Threads |-> IdleThread]
    /\ last = MkLast("init", <<>>, "ok", <<>>)

BroadcastMsgs == {InvTx(<<1>>)}

ServerInvLists == {<<<<1>>>>, <<<<2>>, <<1>>>>}

NextServer ==
    \/ ServerStartLoop
    \/ \E r \in RemoteAddrs : Accept(r)
    \/ \E c \in RemoteAddrs : HandleConnectionRegister(c)
    \/ \E c \in RemoteAddrs : HandleConnectionAddPeer(c)
    \/ \E c \in RemoteAddrs : \E f \in Frames : ReadFrame(c, f)
    \/ \E c \in RemoteAddrs : \E cmd \in Commands : HandleBadPayload(c, cmd)
    \/ \E c \in RemoteAddrs : \E cmd \in OtherCommands : UnknownCommand(c, cmd)
    \/ \E c \in RemoteAddrs : \E type \in {"block", "tx"} : HandleInvEmpty(c, type)
    \/ \E c \in RemoteAddrs : \E items \in ServerInvLists :
          Reading(c) /\ HandleInvBlock(c, items)
    \/ \E c \in RemoteAddrs : ~crashed /\ HandleInvFilter(c)
    \/ \E c \in RemoteAddrs : ~crashed /\ HandleInvStore(c)
    \/ \E c \in RemoteAddrs : HandleBlockBegin(c)
    \/ \E c \in RemoteAddrs : HandleBlockPop(c)
    \/ \E c \in RemoteAddrs : \E fatal \in BOOLEAN : HandleBlockRange(c, fatal)
    \/ \E msg \in BroadcastMsgs : BroadcastMessage(msg)
    \/ \E send \in inflight : \E ok \in BOOLEAN : BroadcastSendDone(send, ok)
    \/ \E c \in RemoteAddrs : HandleConnectionUnregister(c)
    \/ \E c \in RemoteAddrs : HandleConnectionDisconnect(c)

SpecServer == InitServer /\ [][NextServer]_vars

\* a node whose only seed is n1
InitLifecycle ==
    /\ transactions = {}
    /\ KnownNodes = {}
    /\ inflight = {}
    /\ peers = {}
    /\ dialing = NoAddr
    /\ now = 0
    /\ nm = [maxPeers |-> maxPeers + 1, bootstrapNodes |-> <<"n1">>, running |-> FALSE]
    /\ task = IdleTask
    /\ blocksInTransit = <<>>
    /\ handlers = [c \in RemoteAddrs |-> IdleHandler]
    /\ server = NewServer
    /\ routines = [l \in Loops |-> "none"]
    /\ crashed = FALSE
    /\ threads = [t \in Threads |-> IdleThread]
    /\ last = MkLast("init", <<>>, "ok", <<>>)

NextLoops ==
    \/ NodeManagerStart
    \/ NodeManagerStop
    \/ \E l \in Loops : LoopTick(l)
    \/ startPeerDiscovery
    \/ discoverPeersLoop
    \/ discoverPeersReturn
    \/ \E ok \in BOOLEAN : ConnectToPeerEnd(ok)
    \/ startPeerMaintenance
    \/ startHealthCheck
    \/ \E a \in RemoteAddrs : \E ok \in BOOLEAN : pingPeer(a, ok)

\* tickers fire, dials and sends return, a goroutine that can run does, and
\* sync.Mutex hands the lock to every waiter; calls of Start and Stop are
\* up to the environment
FairLoops ==
    /\ \A l \in Loops : WF_vars(LoopTick(l))
    /\ SF_vars(startPeerDiscovery)
    /\ SF_vars(discoverPeersLoop)
    /\ WF_vars(discoverPeersReturn)
    /\ WF_vars(\E ok \in BOOLEAN : ConnectToPeerEnd(ok))
    /\ SF_vars(startPeerMaintenance)
    /\ SF_vars(startHealthCheck)
    /\ WF_vars(\E a \in RemoteAddrs : \E ok \in BOOLEAN : pingPeer(a, ok))

SpecLoops == InitLifecycle /\ [][NextLoops]_vars /\ FairLoops

NextLifecycle ==
    \/ ServerStartListen
    \/ ServerStartSetListener
    \/ ServerStartSetRunning
    \/ ServerStartManagers
    \/ ServerStartLoop
    \/ \E r \in RemoteAddrs : Accept(r)
    \/ AcceptError
    \/ ServerStopFlag
    \/ ServerStopManagers
    \/ ServerStopClose

\* a goroutine that can run does, and Accept on a closed listener returns;
\* calls of Start and Stop, and peers connecting, are up to the environment
FairLifecycle ==
    /\ WF_vars(ServerStartSetListener)
    /\ WF_vars(ServerStartSetRunning)
    /\ WF_vars(ServerStartManagers)
    /\ WF_vars(ServerStartLoop)
    /\ WF_vars(AcceptError)
    /\ WF_vars(ServerStopManagers)
    /\ WF_vars(ServerStopClose)

SpecLifecycle == Init /\ [][NextLifecycle]_vars /\ FairLifecycle

\* a caller holds a list of competing chains
InitSync ==
    /\ transactions = {}
    /\ KnownNodes = {}
    /\ inflight = {}
    /\ peers = {}
    /\ dialing = NoAddr
    /\ now = 0
    /\ nm = [maxPeers |-> maxPeers, bootstrapNodes |-> DefaultBootstrapNodes,
             running |-> FALSE]
    /\ task = IdleTask
    /\ blocksInTransit = <<>>
    /\ handlers = [c \in RemoteAddrs |-> IdleHandler]
    /\ server = NewServer
    /\ routines = [l \in Loops |-> "none"]
    /\ crashed = FALSE
    /\ threads = [t \in Threads |-> IdleThread]
    /\ \E chains \in ChainLists : last = MkLast("competingChains", chains, "ok", <<>>)

NextSync == \E perIteration \in BOOLEAN : ResolveChainConflicts(perIteration)

SpecSync == InitSync /\ [][NextSync]_vars

\* a sender holds a message of a recognized command
InitCodec ==
    /\ transactions = {}
    /\ KnownNodes = {}
    /\ inflight = {}
    /\ peers = {}
    /\ dialing = NoAddr
    /\ now = 0
    /\ nm = [maxPeers |-> maxPeers, bootstrapNodes |-> DefaultBootstrapNodes,
             running |-> FALSE]
    /\ task = IdleTask
    /\ blocksInTransit = <<>>
    /\ handlers = [c \in RemoteAddrs |-> IdleHandler]
    /\ server = NewServer
    /\ routines = [l \in Loops |-> "none"]
    /\ crashed = FALSE
    /\ threads = [t \in Threads |-> IdleThread]
    /\ \E msg \in CodecMessages : last = MkLast("message", msg, "ok", <<>>)

NextCodec == SendOnWire \/ ReceiveFromWire

SpecCodec == InitCodec /\ [][NextCodec]_vars

\* The maintenance loop next to the calls that fill and age the peer table
NextMaintain ==
    \/ \E a \in RemoteAddrs : AddPeer(a)
    \/ \E a \in RemoteAddrs : \E h \in Heights : \E v \in Versions : UpdatePeerInfo(a, h, v)
    \/ \E a \in RemoteAddrs : BanPeer(a)
    \/ \E a \in RemoteAddrs : DisconnectFromPeer(a)
    \/ Tick
    \/ LoopTick("startPeerMaintenance")
    \/ startPeerMaintenance

SpecMaintain == InitServer /\ [][NextMaintain]_vars

\* Two peers that advertise different blocks: the item lists of the
\* inv(block) messages each of them sends
Advertises(c) == IF c = "n1" THEN {<<<<1>>, <<2>>>>} ELSE {<<<<3>>>>, <<<<3>>, <<3>>>>}

\* Connection handlers of the two peers: inv(block) and block messages
NextAdvert ==
    \/ ServerStartLoop
    \/ \E r \in RemoteAddrs : Accept(r)
    \/ \E c \in RemoteAddrs : HandleConnectionRegister(c)
    \/ \E c \in RemoteAddrs : HandleConnectionAddPeer(c)
    \/ \E c \in RemoteAddrs : \E items \in Advertises(c) :
          Reading(c) /\ HandleInvBlock(c, items)
    \/ \E c \in RemoteAddrs : ~crashed /\ HandleInvFilter(c)
    \/ \E c \in RemoteAddrs : ~crashed /\ HandleInvStore(c)
    \/ \E c \in RemoteAddrs : HandleBlockBegin(c)
    \/ \E c \in RemoteAddrs : HandleBlockPop(c)
    \/ \E c \in RemoteAddrs : \E fatal \in BOOLEAN : HandleBlockRange(c, fatal)

SpecAdvert == InitServer /\ [][NextAdvert]_vars

\* The exchange that a version message of a remote node starts
NextExchange ==
    \/ \E c \in RemoteAddrs : PeerSendVersion(c)
    \/ \E c \in RemoteAddrs : DeliverVersion(c)
    \/ \E c \in RemoteAddrs : PeerHandleGetBlocks(c)
    \/ \E c \in RemoteAddrs : DeliverInv(c)
    \/ \E c \in RemoteAddrs : PeerHandleGetData(c)
    \/ \E c \in RemoteAddrs : DeliverBlock(c)

\* reliable delivery: a message that was written is handled; whether a
\* remote node connects is up to that node
FairExchange ==
    \A c \in RemoteAddrs :
        /\ WF_vars(DeliverVersion(c))
        /\ WF_vars(PeerHandleGetBlocks(c))
        /\ WF_vars(DeliverInv(c))
        /\ WF_vars(PeerHandleGetData(c))
        /\ WF_vars(DeliverBlock(c))

SpecExchange == InitServer /\ [][NextExchange]_vars /\ FairExchange

\* Block and tx messages arriving on open connections, next to the calls
\* that fill the mempool and the in-transit queue
NextReceive ==
    \/ ServerStartLoop
    \/ \E r \in RemoteAddrs : Accept(r)
    \/ \E c \in RemoteAddrs : HandleConnectionRegister(c)
    \/ \E c \in RemoteAddrs : HandleConnectionAddPeer(c)
    \/ \E order \in EvictOrders(transactions) : \E tx \in HandlerTxs : AddTransaction(tx, order)
    \/ \E c \in RemoteAddrs : \E tx \in HandlerTxs : HandleTx(c, tx)
    \/ \E c \in RemoteAddrs : \E items \in ServerInvLists :
          Reading(c) /\ HandleInvBlock(c, items)
    \/ \E c \in RemoteAddrs : ~crashed /\ HandleInvFilter(c)
    \/ \E c \in RemoteAddrs : ~crashed /\ HandleInvStore(c)
    \/ \E c \in RemoteAddrs : HandleBlockBegin(c)
    \/ \E c \in RemoteAddrs : HandleBlockPop(c)
    \/ \E c \in RemoteAddrs : \E fatal \in BOOLEAN : HandleBlockRange(c, fatal)

SpecReceive == InitServer /\ [][NextReceive]_vars

\* Goroutines that take the three locks
NextLocks ==
    \/ \E t \in Threads : \E call \in DOMAIN LockPrograms : ThreadCall(t, call)
    \/ \E t \in Threads : ThreadLockAnnounce(t)
    \/ \E t \in Threads : ThreadLock(t)
    \/ \E t \in Threads : ThreadRLock(t)
    \/ \E t \in Threads : ThreadUnlock(t)
    \/ \E t \in Threads : ThreadIO(t)
    \/ \E t \in Threads : ThreadReturn(t)

SpecLocks == InitServer /\ [][NextLocks]_vars

(***************************************************************************)
(* Properties of the mempool manager, checked under SpecMempool.           *)
(***************************************************************************)
UniqueKeys == \A e1 \in transactions : \A e2 \in transactions : e1.key = e2.key => e1 = e2

\* every action records its name and argument in last, so a step is an
\* AddTransaction(tx) step exactly when it leaves last' naming it
IsAddStep(tx) == last'.op = "AddTransaction" /\ last'.arg = tx

IsStepOf(op) == last'.op = op

MinTimestamp(txs) == CHOOSE t \in {e.Timestamp : e \in txs} :
                         \A e \in txs : t <= e.Timestamp

HexSet(ids) == {Hex(ids[i]) : i \in DOMAIN ids}

\* C1: the pool never holds two entries with the same transaction ID, and
\* AddTransaction of a transaction whose ID is already in the pool returns
\* an error and leaves every entry (timestamp, fee, size) as it was.
C1_DuplicateStep ==
    IsStepOf("AddTransaction") =>
        \A tx \in Txs :
            (IsAddStep(tx) /\ Hex(tx.id) \in {e.key : e \in transactions})
                => (transactions' = transactions /\ last'.res = "error")

C1_NoDuplicateID == [](UniqueKeys) /\ [][C1_DuplicateStep]_vars

C1_Witness ==
    /\ last.op = "AddTransaction"
    /\ last.res = "error"
    /\ \E e \in transactions :
          /\ e.key = Hex(last.arg.id)
          /\ e.tx # last.arg
          /\ e.Timestamp < now

\* C2: the number of entries is at most the configured maximum in every
\* reachable state.
C2_SizeBound == Cardinality(transactions) <= maxSize

\* C3: AddTransaction of a new ID into a pool holding exactly maxSize entries
\* removes exactly one entry, one with the earliest timestamp, adds the new
\* entry and keeps every other entry.
C3_EvictStep ==
    IsStepOf("AddTransaction") =>
        \A tx \in Txs :
            (/\ IsAddStep(tx)
             /\ Hex(tx.id) \notin {e.key : e \in transactions}
             /\ Cardinality(transactions) = maxSize)
                => \E old \in transactions :
                      /\ old.Timestamp = MinTimestamp(transactions)
                      /\ \E new \in transactions' :
                            /\ new.key = Hex(tx.id)
                            /\ new.tx = tx
                            /\ transactions' = (transactions \ {old}) \cup {new}

C3_EvictsOldest == [][C3_EvictStep]_vars

\* C4: an entry carries the time of its admission for as long as it stays in
\* the pool; a CleanExpiredTransactions pass removes every entry whose age
\* exceeds the timeout and keeps every entry whose age is at most the timeout.
C4_Step ==
    /\ \A e \in transactions' :
          IF e.key \in {o.key : o \in transactions}
          THEN \/ e \in transactions
               \/ last'.op = "AddTransaction" /\ e.Timestamp = now
          ELSE last'.op = "AddTransaction" /\ e.Timestamp = now
    /\ IsStepOf("CleanExpiredTransactions") =>
          \A e \in transactions :
              /\ now - e.Timestamp > timeout => e.key \notin {n.key : n \in transactions'}
              /\ now - e.Timestamp <= timeout => e \in transactions'

C4_ExpiredRemoved == [][C4_Step]_vars

C4_Witness ==
    /\ last.op = "CleanExpiredTransactions"
    /\ last.res = "cleaned"
    /\ \E e \in transactions : now - e.Timestamp = timeout

\* C5: RemoveConfirmedTransactions(ids) removes exactly the entries whose ID
\* is in ids, leaves every other entry unchanged, and IDs that are not in the
\* pool cause no error.
C5_Step ==
    IsStepOf("RemoveConfirmedTransactions") =>
        /\ transactions' = {e \in transactions : e.key \notin HexSet(last'.arg)}
        /\ last'.res \in {"ok", "removed"}

C5_RemovesExactly == [][C5_Step]_vars

C5_Witness ==
    /\ last.op = "RemoveConfirmedTransactions"
    /\ last.res = "removed"
    /\ Len(last.arg) = 2
    /\ Cardinality(transactions) >= 1

\* C6: admission of a transaction with an empty ID or an empty serialization
\* returns an error and leaves the pool as it was.
C6_Step ==
    IsStepOf("AddTransaction") =>
        \A tx \in Txs :
            (IsAddStep(tx) /\ (Len(tx.id) = 0 \/ Len(tx.ser) = 0))
                => (transactions' = transactions /\ last'.res = "error")

C6_InvalidRejected == [][C6_Step]_vars

(***************************************************************************)
(* Properties of the peer manager, checked under SpecPeers.                *)
(***************************************************************************)
ConnectedAddrs == {p.Address : p \in {q \in peers : q.Status = "Connected"}}

UniqueAddresses == \A p1 \in peers : \A p2 \in peers : p1.Address = p2.Address => p1 = p2

\* C7: the number of Connected peers is at most maxPeers in every reachable
\* state.
C7_ConnectedBound == Cardinality(ConnectedAddrs) <= maxPeers

\* C8: with maxPeers peers Connected, ConnectToPeer to a further address
\* returns the capacity error, sends no handshake, starts no dial and leaves
\* the peer table unchanged.
C8_Step ==
    \A a \in RemoteAddrs :
        (/\ IsStepOf("ConnectToPeer") /\ last'.arg = a /\ dialing = NoAddr
         /\ a \notin ConnectedAddrs
         /\ Cardinality(ConnectedAddrs) >= maxPeers)
            => /\ peers' = peers
               /\ dialing' = NoAddr
               /\ last'.res = "capacity"
               /\ last'.sent = <<>>

C8_CapacityError == [][C8_Step]_vars

C8_Witness ==
    /\ last.op = "ConnectToPeer"
    /\ last.res = "capacity"
    /\ last.arg \notin ConnectedAddrs
    /\ Cardinality(ConnectedAddrs) = maxPeers

\* C9: ConnectToPeer to the local address returns an error, sends nothing,
\* starts no dial and leaves the peer table unchanged.
C9_Step ==
    (IsStepOf("ConnectToPeer") /\ last'.arg = ServerAddress)
        => /\ peers' = peers
           /\ dialing' = NoAddr
           /\ last'.res = "self"
           /\ last'.sent = <<>>

C9_SelfRejected == [][C9_Step]_vars

C9_Witness ==
    /\ last.op = "ConnectToPeer"
    /\ last.arg = ServerAddress
    /\ last.res = "self"
    /\ peers # {}

\* C10: the peer table never holds two entries for one address, and
\* AddPeer(a) changes nothing when a is the local address or already has an
\* entry.
C10_Step ==
    \A a \in Addrs :
        (IsStepOf("AddPeer") /\ last'.arg = a /\ (a = ServerAddress \/ a \in {p.Address : p \in peers}))
            => peers' = peers

C10_AddPeerNoOp == [](UniqueAddresses) /\ [][C10_Step]_vars

C10_Witness ==
    /\ last.op = "AddPeer"
    /\ last.res = "known"
    /\ \E p \in peers :
          /\ p.Address = last.arg
          /\ p.Status = "Connected"
          /\ p.Height = 2
          /\ p.LastSeen < now

(***************************************************************************)
(* Properties of ConnectToPeer and of the peer state machine.              *)
(***************************************************************************)
PeerStatus(ps, a) == IF PeerExists(ps, a) THEN PeerAt(ps, a).Status ELSE "absent"

\* C11: ConnectToPeer(a) for a remote address, with fewer than nm.maxPeers
\* peers Connected: when a is Connected it returns the already-connected
\* error and changes nothing; otherwise it dials, and when the dial returns
\* the entry of a is Connected with LastSeen = now and no error on success,
\* Disconnected with the error on failure.
C11_Step ==
    \A a \in RemoteAddrs :
        (IsStepOf("ConnectToPeer") /\ last'.arg = a) =>
            /\ (dialing = NoAddr /\ Cardinality(ConnectedAddrs) < nm.maxPeers) =>
                  IF a \in ConnectedAddrs
                  THEN /\ peers' = peers
                       /\ dialing' = NoAddr
                       /\ last'.res = "already"
                  ELSE /\ dialing' = a
                       /\ last'.res = "dialing"
            /\ dialing = a =>
                  /\ dialing' = NoAddr
                  /\ PeerExists(peers', a)
                  /\ \/ /\ last'.res = "ok"
                        /\ PeerAt(peers', a).Status = "Connected"
                        /\ PeerAt(peers', a).Connected
                        /\ PeerAt(peers', a).LastSeen = now
                     \/ /\ last'.res = "failed"
                        /\ PeerAt(peers', a).Status = "Disconnected"
                        /\ ~PeerAt(peers', a).Connected

C11_ConnectOutcome == [][C11_Step]_vars

C11_Witness ==
    /\ last.op = "ConnectToPeer"
    /\ last.res = "already"
    /\ Cardinality(ConnectedAddrs) < nm.maxPeers
    /\ PeerAt(peers, last.arg).LastSeen = now
    /\ now > 0

\* C12: a peer whose status is Banned, and which is still in the table after
\* a step, is still Banned and not connected after it.
C12_Step ==
    \A p \in peers :
        (p.Status = "Banned" /\ PeerExists(peers', p.Address))
            => /\ PeerAt(peers', p.Address).Status = "Banned"
               /\ ~PeerAt(peers', p.Address).Connected

C12_BannedStays == [][C12_Step]_vars

\* the arrows of the per-peer state machine
StatusArrows ==
    {<<"Connecting", "Connected">>, <<"Connecting", "Disconnected">>,
     <<"Connected", "Disconnected">>, <<"Disconnected", "Connecting">>,
     <<"Connecting", "Banned">>, <<"Connected", "Banned">>, <<"Disconnected", "Banned">>}

\* C14: every step that changes the status of a non-banned peer which stays
\* in the table changes it along an arrow of the state machine.
C14_Step ==
    \A p \in peers :
        (/\ p.Status # "Banned"
         /\ PeerExists(peers', p.Address)
         /\ PeerAt(peers', p.Address).Status # p.Status)
            => <<p.Status, PeerAt(peers', p.Address).Status>> \in StatusArrows

C14_StateMachine == [][C14_Step]_vars

(***************************************************************************)
(* Properties of Bootstrap and the background tasks, under SpecTasks.      *)
(***************************************************************************)
\* C13: the peer that Bootstrap or discoverPeers starts dialling is not
\* Banned, and the peer that pingPeer sends its ping to is not Banned.
C13_Step ==
    /\ (IsStepOf("ConnectToPeer") /\ last'.res = "dialing" /\ task'.waiting)
          => PeerStatus(peers, last'.arg) # "Banned"
    /\ IsStepOf("pingPeer") => PeerStatus(peers, last'.arg) # "Banned"

C13_BannedNotContacted == [][C13_Step]_vars

\* the seeds other than the local address, in list order
RECURSIVE WithoutSelf(_)
WithoutSelf(nodes) ==
    IF nodes = <<>> THEN <<>>
    ELSE IF Head(nodes) = ServerAddress THEN WithoutSelf(Tail(nodes))
         ELSE <<Head(nodes)>> \o WithoutSelf(Tail(nodes))

CallAddrs(calls) == [i \in DOMAIN calls |-> calls[i].addr]

OkCount(calls) == Cardinality({i \in DOMAIN calls : calls[i].res = "ok"})

IsPrefix(a, b) == Len(a) <= Len(b) /\ SubSeq(b, 1, Len(a)) = a

\* C15: Bootstrap with an empty seed list returns an error at once.
\* Otherwise, when it returns, the addresses it called ConnectToPeer for are
\* the seeds other than the local address, in list order, up to and
\* including the second successful one (all of them when fewer than two
\* succeeded), and it reports success exactly when at least one call
\* succeeded.  Started on an empty table with seeds [n1, n2], undisturbed
\* and with no dial failing, it leaves both Connected and reports success.
C15_Step ==
    /\ (IsStepOf("Bootstrap") /\ task.kind = "none") =>
          /\ nm.bootstrapNodes = <<>> => (last'.res = "error" /\ task' = task)
          /\ nm.bootstrapNodes # <<>> => last'.res = "started"
    /\ (IsStepOf("Bootstrap") /\ task.kind = "Bootstrap" /\ task'.kind = "none") =>
          LET seeds == WithoutSelf(task.nodes)
              tried == CallAddrs(task.calls)
              oks == OkCount(task.calls)
          IN /\ IsPrefix(tried, seeds)
             /\ oks <= BootstrapTarget
             /\ oks < BootstrapTarget => tried = seeds
             /\ oks = BootstrapTarget => task.calls[Len(task.calls)].res = "ok"
             /\ last'.res = (IF oks >= 1 THEN "ok" ELSE "error")
             /\ (/\ task.nodes = <<"n1", "n2">>
                 /\ task.fresh
                 /\ task.alone
                 /\ \A i \in DOMAIN task.calls : task.calls[i].res # "failed")
                   => /\ last'.res = "ok"
                      /\ PeerStatus(peers', "n1") = "Connected"
                      /\ PeerStatus(peers', "n2") = "Connected"

C15_Bootstrap == [][C15_Step]_vars

C15_Witness ==
    /\ last.op = "Bootstrap"
    /\ last.res = "ok"
    /\ last.arg = <<"n1", "n2">>
    /\ task.fresh
    /\ task.alone
    /\ task.calls = <<[addr |-> "n1", res |-> "ok"], [addr |-> "n2", res |-> "ok"]>>
    /\ PeerStatus(peers, "n1") = "Connected"
    /\ PeerStatus(peers, "n2") = "Connected"

(***************************************************************************)
(* Properties of the message handlers.                                     *)
(***************************************************************************)
\* C16: HandleVersion of a version message from P advertising height H
\* sends exactly one getblocks to P and nothing else when bestHeight < H,
\* exactly one version to P and nothing else when bestHeight > H, and
\* nothing when bestHeight = H.
C16_Step ==
    IsStepOf("HandleVersion") =>
        LET P == last'.arg.AddrFrom
            H == last'.arg.BestHeight
        IN /\ bestHeight < H => last'.sent = <<[to |-> P, cmd |-> "getblocks"]>>
           /\ bestHeight > H => last'.sent = <<[to |-> P, cmd |-> "version"]>>
           /\ bestHeight = H => last'.sent = <<>>

C16_VersionResponse == [][C16_Step]_vars

C16_Witness ==
    /\ last.op = "HandleVersion"
    /\ last.arg.BestHeight = bestHeight
    /\ last.sent = <<>>
    /\ \E p \in peers : p.Address # last.arg.AddrFrom /\ p.Height > bestHeight

Distinct(items) == \A i \in DOMAIN items : \A j \in DOMAIN items : i # j => items[i] # items[j]

\* C17: HandleInv of an inv(block) from P with a non-empty list of distinct
\* hashes [h1, ..., hn] stores the list in place of the previous queue and
\* sends exactly one getdata(block, h1) to P, and when the handler returns
\* the in-transit queue is [h2, ..., hn].
C17_Step ==
    (/\ IsStepOf("HandleInv")
     /\ last'.arg.Type = "block"
     /\ last'.arg.Items # <<>>
     /\ Distinct(last'.arg.Items)) =>
        LET P == last'.arg.AddrFrom
            items == last'.arg.Items
        IN /\ handlers[P].pc = "idle" =>
                 /\ blocksInTransit' = items
                 /\ last'.sent = <<GetDataMsg(P, "block", items[1])>>
           /\ handlers[P].pc # "idle" => last'.sent = <<>>
           /\ (handlers[P].pc # "idle" /\ handlers'[P].pc = "idle") =>
                 blocksInTransit' = Tail(items)

C17_InTransitQueue == [][C17_Step]_vars

\* C18: HandleInv of an inv(tx) for ID t from P sends at most the one
\* request getdata(tx, t) to P, and sends nothing when the mempool manager
\* holds a transaction with ID t.
C18_Step ==
    (IsStepOf("HandleInv") /\ last'.arg.Type = "tx") =>
        LET P == last'.arg.AddrFrom
            t == last'.arg.Items[1]
        IN /\ last'.sent \in {<<>>, <<GetDataMsg(P, "tx", t)>>}
           /\ Hex(t) \in Keys(transactions) => last'.sent = <<>>

C18_InvTxOnlyIfMissing == [][C18_Step]_vars

\* C19: HandleGetData from R sends a block message with the block to R when
\* the type is block and the hash is in the ledger, and a tx message with
\* the transaction to R when the type is tx and the mempool manager holds a
\* transaction with that ID.
C19_Step ==
    IsStepOf("HandleGetData") =>
        LET R == last'.arg.AddrFrom
            id == last'.arg.ID
        IN /\ (last'.arg.Type = "block" /\ id \in Ledger)
                 => last'.sent = <<BlockMsg(R, id)>>
           /\ (last'.arg.Type = "tx" /\ Hex(id) \in Keys(transactions))
                 => \E e \in transactions :
                       e.key = Hex(id) /\ last'.sent = <<TxMsg(R, e.tx)>>

C19_GetDataServed == [][C19_Step]_vars

\* C20: an AddTransaction step that puts a new ID into the pool adds one send
\* of inv(tx, [ID]) for every node known at that moment and no other send;
\* an AddTransaction of an ID already in the pool adds no send.
C20_Step ==
    IsStepOf("AddTransaction") =>
        LET tx == last'.arg
        IN /\ (Hex(tx.id) \notin Keys(transactions) /\ Hex(tx.id) \in Keys(transactions'))
                 => inflight' = inflight \cup
                        {[to |-> n, msg |-> [cmd |-> "inv", type |-> "tx", items |-> <<tx.id>>]] :
                             n \in KnownNodes}
           /\ Hex(tx.id) \in Keys(transactions) => inflight' = inflight

C20_BroadcastOnAdmit == [][C20_Step]_vars

(***************************************************************************)
(* Properties of the server and its connections, under SpecServer.         *)
(***************************************************************************)
\* the connection from c is open: accepted, registered, its read loop running
Open(c) == c \in server.conns /\ handlers[c].pc \notin {"new", "addpeer", "closing", "disconnect"}

\* C21: while the connection from r is open, r is in the known-node set and
\* in the peer table; when HandleConnection has returned after the close, r
\* is in neither.
C21_Step ==
    (IsStepOf("HandleConnection") /\ last'.res = "closed")
        => (last'.arg \notin KnownNodes' /\ ~PeerExists(peers', last'.arg))

C21_ConnectionBookkeeping ==
    /\ [](\A r \in RemoteAddrs : Open(r) => (r \in KnownNodes /\ PeerExists(peers, r)))
    /\ [][C21_Step]_vars

\* C22: BroadcastMessage starts exactly one send per node known when it is
\* called; a send that fails removes its node from the known-node set and
\* no other, a send that succeeds leaves the set as it is.
C22_Step ==
    /\ IsStepOf("BroadcastMessage")
          => inflight' = inflight \cup {[to |-> n, msg |-> last'.arg] : n \in KnownNodes}
    /\ (IsStepOf("BroadcastSendDone") /\ last'.res = "error")
          => KnownNodes' = KnownNodes \ {last'.arg}
    /\ (IsStepOf("BroadcastSendDone") /\ last'.res = "ok")
          => KnownNodes' = KnownNodes

C22_BroadcastRemovesFailed == [][C22_Step]_vars

\* all sends of a broadcast to two nodes have returned, one failed and was
\* removed, the other succeeded and is still known
C22_Witness ==
    /\ last.op = "BroadcastSendDone"
    /\ last.res = "error"
    /\ inflight = {}
    /\ last.arg \notin KnownNodes
    /\ KnownNodes # {}
    /\ Open(last.arg)

\* C23: a frame that is truncated or does not decode ends the read loop of
\* its connection and nothing else: the process keeps running and the other
\* connections are where they were.
C23_Step ==
    IsStepOf("ReadMessage")
        => /\ ~crashed'
           /\ \E c \in RemoteAddrs :
                 /\ handlers[c].pc = "idle"
                 /\ handlers'[c].pc = "closing"
                 /\ \A d \in RemoteAddrs \ {c} : handlers'[d] = handlers[d]

C23_BadFrameClosesConnection == [][C23_Step]_vars

\* C24: no step of a message handler, on any payload and any item list,
\* ends the process.
C24_Step ==
    (last'.op \in {"ProcessMessage", "HandleInv", "HandleVersion", "HandleGetData"})
        => ~crashed'

C24_NoMessagePanics == [][C24_Step]_vars

\* C25: whenever a dial is in progress the peer table is not locked: every
\* other peer-table operation can take its step.
C25_NoLockAcrossDial ==
    dialing # NoAddr => \A a \in RemoteAddrs : ENABLED DisconnectFromPeer(a)

\* C26: the known-node set is not written while a handler ranges over it.
C26_Step ==
    KnownNodes' # KnownNodes => \A c \in RemoteAddrs : handlers[c].pc # "range"

C26_KnownNodesLocked == [][C26_Step]_vars

(***************************************************************************)
(* Properties of the sync manager.                                         *)
(***************************************************************************)
\* C27: ResolveChainConflicts selects a candidate of greatest height among
\* those with height >= 0 and a non-empty hash, sends getblocks to its node
\* iff that height is above the local best height, and sends nothing when
\* no candidate passes.
C27_Step ==
    IsStepOf("ResolveChainConflicts") =>
        LET chains == last'.arg
            valid == {i \in DOMAIN chains :
                         chains[i].Height >= 0 /\ chains[i].Hash # <<>>}
        IN IF valid = {}
           THEN last'.sent = <<>>
           ELSE \E i \in valid :
                   /\ \A j \in valid : chains[i].Height >= chains[j].Height
                   /\ last'.res = <<chains[i]>>
                   /\ last'.sent = IF chains[i].Height > bestHeight
                                   THEN <<GetBlocksMsg(chains[i].NodeAddr)>> ELSE <<>>

C27_SelectsGreatestValid == [][C27_Step]_vars

\* C28: in every state IsSynced() is true exactly when the queue of blocks
\* in transit is empty, GetSyncStatus().IsSyncing is its negation and
\* GetSyncStatus().BlocksRemaining is the length of the queue; a call
\* returns these values.
C28_Step ==
    /\ IsStepOf("IsSynced") => (last'.res <=> blocksInTransit = <<>>)
    /\ IsStepOf("GetSyncStatus")
          => /\ last'.res.IsSyncing <=> blocksInTransit # <<>>
             /\ last'.res.BlocksRemaining = Len(blocksInTransit)

RoundStarts(l) == routines[l] = "checked" /\ routines'[l] = "ticker"

\* C29: NodeManager.Stop on a stopped manager changes nothing; a loop
\* starts a round only while the manager is running; and when the manager
\* is stopped for good, every loop eventually has returned.
C29_Step ==
    /\ IsStepOf("NodeManager.Stop")
          => /\ ~nm'.running
             /\ ~nm.running => nm' = nm
             /\ routines' = routines /\ peers' = peers /\ task' = task
    /\ \A l \in Loops : RoundStarts(l) => nm.running

C29_StopTerminatesLoops ==
    /\ [][C29_Step]_vars
    /\ (<>[](~nm.running)) => <>[](\A l \in Loops : routines[l] = "none")

\* C30: once Stop has returned from a call made while Start was running,
\* no connection is accepted and the running flag of the node manager is
\* false; and from the call of Stop on, Start eventually returns.
C30_Step ==
    (server.stopped = "returned" /\ server'.stopped = "returned")
        => /\ server'.conns \subseteq server.conns
           /\ ~nm'.running

C30_StopEndsStart ==
    /\ [][C30_Step]_vars
    /\ (server.stopped # "no") ~> (server.start = "none")

(***************************************************************************)
(* Properties of the wire format, under SpecCodec.                         *)
(***************************************************************************)
\* the number that four length bytes spell, most significant byte first
BigEndian(b) == ((b[1] * ByteSize + b[2]) * ByteSize + b[3]) * ByteSize + b[4]

\* C31: the length prefix that WriteMessage writes is the length of the
\* envelope that follows it, and ReadMessage on the bytes written yields
\* the command and the payload of the message written.
C31_Step ==
    /\ IsStepOf("WriteMessage")
          => BigEndian(SubSeq(last'.sent, 1, 4)) = Len(last'.sent) - 4
    /\ IsStepOf("ReadMessage")
          => /\ last'.res.res = "message"
             /\ last'.res.msg.Command = last'.arg.Command
             /\ last'.res.msg.Data = last'.arg.Data

C31_RoundTrip == [][C31_Step]_vars

\* C32: a message whose command is none of version, getblocks, inv, getdata,
\* block, tx, ping (an unknown command, or pong) is dropped at dispatch: no
\* message is sent, the peer table, the known nodes, the mempool and the
\* in-transit queue are unchanged, and the connection goes on reading.
C32_Step ==
    (last'.op = "ProcessMessage" /\ last'.res = "ok" /\ last'.arg.cmd \notin Commands)
        => /\ last'.sent = <<>>
           /\ inflight' = inflight
           /\ peers' = peers
           /\ KnownNodes' = KnownNodes
           /\ transactions' = transactions
           /\ blocksInTransit' = blocksInTransit
           /\ ~crashed'
           /\ \E c \in RemoteAddrs : c = last'.arg.conn /\ Reading(c)'

C32_UnknownCommandDropped == [][C32_Step]_vars

C32_Witness ==
    /\ last.op = "ProcessMessage"
    /\ last.res = "ok"
    /\ last.arg.cmd = "pong"
    /\ peers # {}
    /\ blocksInTransit # <<>>

\* C33: a getdata request for a block hash that is not in the ledger, or
\* for a transaction ID the node does not hold, sends no message to the
\* requester and changes no state.
C33_Step ==
    (/\ last'.op = "HandleGetData"
     /\ \/ last'.arg.Type = "block" /\ last'.arg.ID \notin Ledger
        \/ /\ last'.arg.Type = "tx"
           /\ \A e \in Mempool : e.key # Hex(last'.arg.ID)
           /\ \A e \in transactions : e.key # Hex(last'.arg.ID))
        => /\ last'.sent = <<>>
           /\ last'.res = "ok"
           /\ UNCHANGED <<server, routines, crashed, transactions, KnownNodes, inflight,
                          peers, dialing, now, nm, task, blocksInTransit, handlers>>

C33_UnknownGetDataIgnored == [][C33_Step]_vars

C33_Witness ==
    /\ last.op = "HandleGetData"
    /\ last.arg.Type = "block"
    /\ last.arg.ID \notin Ledger
    /\ transactions # {}
    /\ peers # {}

\* C34: a maintenance pass removes exactly the peers whose last-seen age
\* exceeds the threshold and whose status is not Banned; every banned peer
\* and every peer seen within the threshold stays in the table unchanged.
C34_Step ==
    (last'.op = "maintainPeers")
        => /\ peers' \subseteq peers
           /\ \A p \in peers :
                 IF now - p.LastSeen > staleThreshold /\ p.Status # "Banned"
                 THEN ~PeerExists(peers', p.Address)
                 ELSE p \in peers'

C34_MaintenanceRemovesStale == [][C34_Step]_vars

C34_Witness ==
    /\ last.op = "maintainPeers"
    /\ last.arg # {}
    /\ \E p \in peers : p.Status = "Banned" /\ now - p.LastSeen > staleThreshold

\* C35: a health-check round sends one ping to every peer that is Connected
\* when the round starts; a peer whose ping send fails ends Disconnected and
\* stays in the table, and a peer whose ping send succeeds keeps its status.
C35_Step ==
    /\ (last'.op = "performHealthCheck")
          => /\ inflight' = inflight \cup
                    {PingMsg(p.Address) : p \in {q \in peers : q.Status = "Connected"}}
             /\ peers' = peers
    /\ (last'.op = "pingPeer" /\ last'.res = "error")
          => \A p \in peers :
                IF p.Address = last'.arg
                THEN [p EXCEPT !.Status = "Disconnected", !.Connected = FALSE] \in peers'
                ELSE p \in peers'
    /\ (last'.op = "pingPeer" /\ last'.res = "ok") => peers' = peers

C35_HealthCheckRound == [][C35_Step]_vars

C35_Witness ==
    /\ last.op = "pingPeer"
    /\ last.res = "error"
    /\ PeerExists(peers, last.arg)
    /\ PeerAt(peers, last.arg).Status = "Disconnected"
    /\ \E a \in RemoteAddrs : a # last.arg /\ PingMsg(a) \in inflight

\* C36: whenever no NodeManager critical section is in progress, a peer's
\* Connected flag is true if and only if its status is Connected.
C36_ConnectedFlagMatchesStatus ==
    dialing = NoAddr => \A p \in peers : p.Connected <=> (p.Status = "Connected")

C36_Witness ==
    /\ dialing = NoAddr
    /\ \E p \in peers : p.Status = "Banned" /\ ~p.Connected
    /\ \E p \in peers : p.Status = "Connected" /\ p.Connected
    /\ last.op = "BanPeer"
    /\ PeerExists(peers, last.arg)

\* the block hashes peer c has advertised in inv(block) messages are among
\* the items of the lists it sends
AdvertisedBy(c) == UNION {{items[i] : i \in DOMAIN items} : items \in Advertises(c)}

\* C37: under any interleaving of connection handlers, every getdata(block, h)
\* request the node sends goes to a node that advertised h in an inv(block)
\* message; no hash advertised by one peer only is requested from the other.
C37_Step ==
    (last'.op \in {"HandleInv", "HandleBlock"})
        => \A i \in DOMAIN last'.sent :
              (last'.sent[i].cmd = "getdata" /\ last'.sent[i].type = "block")
                  => last'.sent[i].id \in AdvertisedBy(last'.sent[i].to)

C37_RequestsGoToAdvertiser == [][C37_Step]_vars

\* only n1 and the local node take part
TwoNodes ==
    /\ "n2" \notin KnownNodes
    /\ \A m \in inflight : m.from # "n2" /\ m.to # "n2"

Quiescent == inflight = {} /\ blocksInTransit = <<>>

\* C38: between two nodes whose ledgers do not change and with reliable
\* delivery, the exchange started by one version message (getblocks, inv,
\* getdata, block) reaches a quiescent state after finitely many messages:
\* eventually no further request is sent and the in-transit queue is empty.
C38_ExchangeQuiesces == ([]TwoNodes) => <>[]Quiescent

\* C39: handling a block message or a tx message never appends to the
\* ledger and never admits to the mempool: the ledger (and with it the best
\* height) and the Mempool Manager's table are the same after the handler
\* as before it.
C39_Step ==
    (last'.op \in {"HandleBlock", "HandleTx"})
        => /\ server'.Blockchain = server.Blockchain
           /\ Cardinality(server'.Blockchain) - 1 = Cardinality(server.Blockchain) - 1
           /\ transactions' = transactions

C39_WitnessBlock ==
    /\ last.op = "HandleBlock"
    /\ last.res = "ok"
    /\ server.Blockchain = Ledger
    /\ transactions # {}

\* C40: no interleaving of the operations that take the three locks
\* deadlocks when all network I/O returns: whenever some goroutine is inside
\* a call, one of them can take a step; a goroutine that holds two locks
\* took a manager lock first and the server lock second, and no goroutine
\* holds the same lock twice.
C40_LockOrder ==
    /\ (\E t \in Threads : Busy(t)) => \E t \in Threads : Busy(t) /\ ENABLED ThreadStep(t)
    /\ \A t \in Threads :
          LET held == threads[t].held
          IN /\ Len(held) <= 2
             /\ Len(held) = 2 => held[1].mu \in {"nm", "mm"} /\ held[2].mu = "s"

C40_Witness ==
    /\ Holds("t1", "mm", "W")
    /\ Holds("t1", "s", "R")
    /\ Announced("t2", "s")
    /\ At("t3", "RLock") /\ Instr("t3").mu = "s"

====
